---- MODULE Spec2Model ----
(***************************************************************************)
(* DailyMacroTracker: the reconciliation controller of src/src/App.tsx     *)
(* (the MacroTracker component), the remote sync client of                 *)
(* src/unnamed/part_004 (ApiClient) and the remote store of                *)
(* src/backend/server.js + src/backend/db.js, as one state machine.        *)
(*                                                                         *)
(* The controller runs on one thread.  A handler runs to its first await   *)
(* in one step; each await of a network call splits the handler in two     *)
(* steps with the request in flight in between.  Requests travel on        *)
(* independent connections: the server handles the requests in flight in   *)
(* any order and the responses come back in any order.                     *)
(*                                                                         *)
(* A daily entry is [id, key, bad]: id is the identifier it carries, key   *)
(* stands for its content (food, name, portion, macros, date, meal time),  *)
(* bad is the value of the NaN test of App.tsx:142 on its macro fields.    *)
(***************************************************************************)
EXTENDS Integers, Sequences, FiniteSets, TLC

VARIABLES
    customFoods,      \* App.tsx:76   useState<Food[]>, as the set of food keys
    dailyEntries,     \* App.tsx:94   useState<DailyEntry[]>
    goals,            \* App.tsx:95   useState(goals)
    isDeletingEntry,  \* App.tsx:126
    isManualSaving,   \* App.tsx:127
    autoTimer,        \* the pending timeout of the autosave effect, App.tsx:220
    resaveTimers,     \* the pending timeouts of App.tsx:192 (never cleared)
    tasks,            \* the addFoodEntry / removeFoodEntry calls suspended at an await
    net,              \* the requests in flight, each with its response once handled
    remote,           \* the user's rows in the remote store (db.js tables)
    nextId,           \* the next AUTOINCREMENT row id of daily_entries
    nextKey,          \* the next fresh entry content (and Date.now() of App.tsx:466)
    ops,              \* user actions performed so far
    acked,            \* history: the add/remove calls whose push the store acknowledged
    unsaved,          \* history: a change of foods or goals that no push has carried yet
    failed,           \* history: datasets of the pushes that failed since the last user action
    faults,           \* history: requests that have failed so far
    user,             \* part_004:503  useState<User | null>
    token,            \* part_004:504  useState<string | null>
    loading,          \* part_004:505  useState(true)
    storedToken,      \* localStorage 'authToken'
    storedUser,       \* localStorage 'authUser'
    apiToken,         \* the Authorization default header of the ApiClient, part_004:101-107
    authPc,           \* position of initializeAuth, part_004:580-618
    now,              \* the clock, in seconds
    calls,            \* session-level requests in flight (verify, login, data calls)
    lastAct,          \* history: the last session event
    localCache,       \* localStorage 'customFoods' and 'dailyEntries'
    portionSize,      \* App.tsx:92    useState('100'), the text of the portion input
    arg,              \* the argument a function under study is applied to
    result,           \* what the function returned
    build,            \* which store the server is built with
    db,               \* the tables of the store (users, custom_foods, daily_entries, user_goals)
    handlers,         \* the registration handlers suspended at an await
    reply,            \* the request the server handled last, with its response
    served            \* requests the server has handled so far

vars == << customFoods, dailyEntries, goals, isDeletingEntry, isManualSaving,
           autoTimer, resaveTimers, tasks, net, remote, nextId, nextKey, ops,
           acked, unsaved, failed, faults >>

sessionVars == << user, token, loading, storedToken, storedUser, apiToken,
                  authPc, now, calls, lastAct >>

pureVars == << arg, result >>

serverVars == << build, db, handlers, reply, served >>

(* What the controller and the session never touch. *)
elsewhere == << pureVars, serverVars >>

allVars == << vars, sessionVars, localCache, portionSize, elsewhere >>

-----------------------------------------------------------------------------
(* Bounds of the model *)

MaxOps == 2          \* user actions in one run
MaxTasks == 2        \* add/remove calls suspended at the same time
MaxReq == 2          \* requests in flight at the same time
MaxFaults == 2       \* requests that fail in one run
MaxTime == 2         \* ticks the clock runs
MaxLogins == 1       \* login attempts in one run
MaxEntries == 2      \* entries in a list given to the aggregation
MaxName == 3         \* characters typed into a name field
MaxSaves == 2        \* times the food form is saved in one run
MaxServed == 3       \* requests the server handles in one run
MaxRegistrations == 3 \* registration requests in one run (below the limit of authLimiter)
MaxCalls == 3        \* calls of the data controller in one session run
TokenLifetime == 1   \* ticks a token issued by login lasts
InitialRows == 2     \* rows (and entry contents) the store may hold at the start
TempBase == 100      \* client-generated ids are Date.now() values, far above the row ids

FoodKeys == {1}
TaskIds == 1..MaxTasks
ReqIds == 1..MaxReq

-----------------------------------------------------------------------------
(* Data *)

DefaultGoals == [calories |-> 2200, protein |-> 165, carbs |-> 275, fat |-> 73]
CustomGoals == [calories |-> 2000, protein |-> 150, carbs |-> 250, fat |-> 67]
GoalChoices == {DefaultGoals, CustomGoals}

Entry(i, k, b) == [id |-> i, key |-> k, bad |-> b]

Keys(entries) == {entries[i].key : i \in 1..Len(entries)}
Ids(entries) == {entries[i].id : i \in 1..Len(entries)}

Dataset(cf, de, g) == [customFoods |-> cf, dailyEntries |-> de, goals |-> g]

NoEntries == << >>

(* The state of the first render: the closure of the load started on mount. *)
InitialState == Dataset({}, NoEntries, DefaultGoals)

(* The datasets a user may already have in the remote store when the
   component mounts: a new account, an account with clean data, and an
   account holding one row whose macros fail the NaN test. *)
InitialRemotes ==
    { Dataset({}, NoEntries, DefaultGoals),
      Dataset({1}, << Entry(1, 1, FALSE) >>, CustomGoals),
      Dataset({1}, << Entry(1, 1, FALSE), Entry(2, 2, TRUE) >>, CustomGoals) }

FirstFreeRowId == InitialRows + 1
FirstFreeKey == InitialRows + 1

NoArg == [of |-> "none"]
NoResult == [of |-> "none"]

(* The store of a server that has just been installed, db.js:35-100. *)
EmptyDb ==
    [users |-> << >>, custom_foods |-> << >>, daily_entries |-> << >>, user_goals |-> {},
     sequence |-> [custom_foods |-> 0, daily_entries |-> 0]]

NoReply == [of |-> "none"]

ServerIdle ==
    /\ build = "sqlite"
    /\ db = EmptyDb
    /\ handlers = {}
    /\ reply = NoReply
    /\ served = 0

NothingElsewhere ==
    /\ arg = NoArg
    /\ result = NoResult
    /\ ServerIdle

-----------------------------------------------------------------------------
(* Numeric integrity guard *)

RECURSIVE cleanupNaNEntries(_)
cleanupNaNEntries(entries) ==
    IF entries = << >> THEN << >>
    ELSE IF Head(entries).bad THEN cleanupNaNEntries(Tail(entries))
         ELSE << Head(entries) >> \o cleanupNaNEntries(Tail(entries))

countCorruptedEntries == Cardinality({i \in 1..Len(dailyEntries) : dailyEntries[i].bad})

RECURSIVE FilterId(_, _)
FilterId(entries, entryId) ==
    IF entries = << >> THEN << >>
    ELSE IF Head(entries).id = entryId THEN FilterId(Tail(entries), entryId)
         ELSE << Head(entries) >> \o FilterId(Tail(entries), entryId)

-----------------------------------------------------------------------------
(* Remote store *)

RECURSIVE InsertRows(_, _)
InsertRows(entries, rowId) ==
    IF entries = << >> THEN << >>
    ELSE << Entry(rowId, Head(entries).key, Head(entries).bad) >>
         \o InsertRows(Tail(entries), rowId + 1)

(* dbHelpers.saveUserData: goals upserted, both tables emptied for the user,
   every pushed row inserted under a fresh AUTOINCREMENT id. *)
dbSaveUserData(data, rowId) ==
    Dataset(data.customFoods, InsertRows(data.dailyEntries, rowId), data.goals)

dbGetUserData == remote

-----------------------------------------------------------------------------
(* Session lifecycle: AuthProvider of part_004:466-721 and AuthenticatedApp
   of App.tsx:1548-1563.  A token is the JWT the server signed: exp is its
   expiry claim in seconds, signed says whether the server's jwt.verify
   accepts its signature. *)

NoToken == [shape |-> "none"]
NoUser == "none"
Jwt(exp, signed) == [shape |-> "jwt", exp |-> exp, signed |-> signed]
Tokens == {Jwt(e, g) : e \in 0..(MaxTime + TokenLifetime), g \in BOOLEAN}
Users == {"alice"}

(* A token check that never reports expiry. *)
TokenNeverExpired(tok) == FALSE

(* isTokenExpired, part_004:527-536: a token that cannot be parsed counts as
   expired. *)
isTokenExpired(tok) ==
    IF tok.shape = "jwt" THEN tok.exp < now ELSE TRUE

(* isAuthenticated: !!user && !!token, part_004:713 *)
isAuthenticated == user # NoUser /\ token # NoToken

(* AuthenticatedApp renders MacroTracker when not loading and authenticated. *)
Mounted == ~loading /\ isAuthenticated

(* A logout that leaves the default Authorization header of the API client
   in place. *)
LogoutKeepsHeader ==
    /\ user' = NoUser
    /\ token' = NoToken
    /\ storedToken' = NoToken
    /\ storedUser' = NoUser
    /\ apiToken' = apiToken

(* logout, part_004:539-545 *)
logout ==
    /\ user' = NoUser
    /\ token' = NoToken
    /\ storedToken' = NoToken
    /\ storedUser' = NoUser
    /\ apiToken' = NoToken

(* authenticateToken, server.js:96-111, with jwt.verify: 401 without a
   token, 403 for a token it does not accept or whose exp has been reached. *)
authenticateToken(tok) ==
    IF tok = NoToken THEN 401
    ELSE IF ~tok.signed \/ tok.exp <= now THEN 403
    ELSE 200

(* Request interceptor, part_004:68-80: the Authorization header is the token
   in localStorage at the time of the request, or else the default header
   kept by setAuthToken. *)
SentToken == IF storedToken # NoToken THEN storedToken ELSE apiToken

-----------------------------------------------------------------------------
(* Remote sync client *)

NoOverride == [has |-> FALSE, dailyEntries |-> NoEntries]
Override(de) == [has |-> TRUE, dailyEntries |-> de]

(* saveUserDataToBackend(overrideData) of the render whose state is `closure` *)
saveUserDataToBackend(over, closure) ==
    Dataset(closure.customFoods,
            IF over.has THEN over.dailyEntries ELSE closure.dailyEntries,
            closure.goals)

(* ApiClient.request catches every error of the transport and returns
   {success: false}: the promise it returns never rejects. *)
RequestRejects(success) == FALSE

FreeReqIds == ReqIds \ {r.rid : r \in net}
NewReqId == CHOOSE i \in FreeReqIds : \A j \in FreeReqIds : i <= j

FreeTaskIds == TaskIds \ {t.tid : t \in tasks}
NewTaskId == CHOOSE i \in FreeTaskIds : \A j \in FreeTaskIds : i <= j

PushRequest(rid, origin, tid, over, closure) ==
    [rid |-> rid, kind |-> "push", origin |-> origin, tid |-> tid,
     overridden |-> over.has, data |-> saveUserDataToBackend(over, closure),
     stage |-> "sent", tok |-> SentToken, orphan |-> FALSE]

FetchRequest(rid, origin, tid) ==
    [rid |-> rid, kind |-> "fetch", origin |-> origin, tid |-> tid,
     overridden |-> FALSE, data |-> InitialState, stage |-> "sent",
     tok |-> SentToken, orphan |-> FALSE]

-----------------------------------------------------------------------------
(* Autosave effect *)

NoTimer == [phase |-> "idle", closure |-> InitialState]

(* The effect of App.tsx:218-226, run after a render in which one of its
   dependencies changed: the cleanup clears the pending timeout, and a new
   one is set when the condition of line 219 holds. *)
AutosaveEffect(cf, de, g, deleting, saving) ==
    IF (cf # {} \/ de # << >>) /\ ~deleting /\ ~saving
    THEN [phase |-> "waiting", closure |-> Dataset(cf, de, g)]
    ELSE NoTimer

-----------------------------------------------------------------------------
(* Portion input.  The portion field of App.tsx:1068-1075 is a number input:
   its text is a decimal number or, for anything else typed, empty. *)

MaxPortion == 10000

Raw(n) == [text |-> "number", value |-> n]
BlankRaw == [text |-> "blank", value |-> 0]
DefaultPortion == Raw(100)

PortionTexts ==
    {BlankRaw} \cup {Raw(n) : n \in (0 - 3)..5 \cup {50, 100, 250} \cup (MaxPortion - 3)..(MaxPortion + 3)}

(* parseFloat of the field's text *)
parseFloat(raw) ==
    IF raw.text = "number" THEN [nan |-> FALSE, n |-> raw.value]
    ELSE [nan |-> TRUE, n |-> 0]

(* A portion test with the upper bound left open at the top. *)
validatePortionBelow(raw) ==
    raw.text = "number" /\ raw.value > 0 /\ raw.value <= MaxPortion + 1

(* validatePortionSize, part_004:283-302 *)
validatePortionSize(raw) ==
    LET portion == parseFloat(raw)
    IN /\ raw.text # "blank"
       /\ ~portion.nan
       /\ ~(portion.n <= 0)
       /\ ~(portion.n > MaxPortion)

(* The checks addFoodEntry makes on a portion passed as its second argument,
   App.tsx:407-446: the argument is used as it is, and the entry is refused
   only if the multiplier portion / serving is NaN or not positive. *)
acceptsCustomPortion(customPortionSize) ==
    /\ ~customPortionSize.nan
    /\ ~(customPortionSize.n <= 0)

-----------------------------------------------------------------------------
(* Local durable cache: the legacy localStorage effects of App.tsx:229-263 *)

Cache(cf, de) == [customFoods |-> cf, dailyEntries |-> de]


(* What an installation that ran the version without accounts has left. *)
LegacyCache == Cache({0}, << Entry(0, 0, FALSE) >>)

(* A load effect that takes the cache whatever the session is. *)
LegacyLoadAlways(authenticated, cache, state) ==
    Dataset(cache.customFoods, cleanupNaNEntries(cache.dailyEntries), state.goals)

(* The load effect of App.tsx:229-249, run once on mount. *)
LegacyLoadEffect(authenticated, cache, state) ==
    IF ~authenticated
    THEN Dataset(cache.customFoods, cleanupNaNEntries(cache.dailyEntries), state.goals)
    ELSE state

(* Save effects that write whatever the session is. *)
LegacySaveAlways(authenticated, cache, cf, de) == Cache(cf, de)

(* The save effects of App.tsx:252-263, run after a render in which the
   collections changed. *)
LegacySaveEffects(authenticated, cache, cf, de) ==
    IF ~authenticated THEN Cache(cf, de) ELSE cache

NoAct == "none"

(* The session of a user who is logged in, the tracker about to mount. *)
LoggedIn ==
    /\ user \in Users
    /\ token = Jwt(MaxTime, TRUE)
    /\ loading = FALSE
    /\ storedToken = token
    /\ storedUser = user
    /\ apiToken = token
    /\ authPc = "done"
    /\ now = 0
    /\ calls = {}
    /\ lastAct = NoAct

-----------------------------------------------------------------------------
Init ==
    /\ LoggedIn
    /\ localCache = LegacyCache
    /\ portionSize = DefaultPortion
    /\ NothingElsewhere
    /\ customFoods = LegacyLoadEffect(isAuthenticated, localCache, InitialState).customFoods
    /\ dailyEntries = LegacyLoadEffect(isAuthenticated, localCache, InitialState).dailyEntries
    /\ goals = LegacyLoadEffect(isAuthenticated, localCache, InitialState).goals
    /\ isDeletingEntry = FALSE
    /\ isManualSaving = FALSE
    /\ autoTimer = NoTimer
    /\ resaveTimers = {}
    /\ tasks = {}
    /\ net = { FetchRequest(1, "load", 0) }
    /\ remote \in InitialRemotes
    /\ nextId = FirstFreeRowId
    /\ nextKey = FirstFreeKey
    /\ ops = 0
    /\ acked = {}
    /\ unsaved = FALSE
    /\ failed = {}
    /\ faults = 0

-----------------------------------------------------------------------------
(* User actions *)

CurrentState == Dataset(customFoods, dailyEntries, goals)

Task(tid, kind, key, closure) ==
    [tid |-> tid, kind |-> kind, key |-> key, originalEntries |-> closure.dailyEntries,
     closure |-> closure, pushOk |-> FALSE, orphan |-> FALSE]

(* The Add to Diary button of the portion modal, App.tsx:1142-1148, calls
   addFoodEntry(selectedFood, parseFloat(portionSize)), App.tsx:403-506: when
   the portion passes the checks the entry gets a temporary id, the state is
   updated optimistically, the portion field is reset, and the full dataset
   is pushed with the updated entries as the override.  A refused portion
   changes nothing. *)
addFoodEntry ==
    /\ Mounted
    /\ acceptsCustomPortion(parseFloat(portionSize))
    /\ ops < MaxOps
    /\ FreeTaskIds # {}
    /\ FreeReqIds # {}
    /\ LET entry == Entry(TempBase + nextKey, nextKey, FALSE)
           updatedEntries == Append(dailyEntries, entry)
       IN /\ dailyEntries' = updatedEntries
          /\ isManualSaving' = TRUE
          /\ net' = net \cup { PushRequest(NewReqId, "add", NewTaskId,
                                           Override(updatedEntries), CurrentState) }
          /\ tasks' = tasks \cup { Task(NewTaskId, "add", nextKey, CurrentState) }
          /\ autoTimer' = AutosaveEffect(customFoods, updatedEntries, goals,
                                         isDeletingEntry, TRUE)
    /\ nextKey' = nextKey + 1
    /\ ops' = ops + 1
    /\ unsaved' = FALSE
    /\ failed' = {}
    /\ UNCHANGED << customFoods, goals, isDeletingEntry, resaveTimers, remote,
                    nextId, acked, faults >>
    /\ portionSize' = DefaultPortion
    /\ UNCHANGED elsewhere
    /\ localCache' = LegacySaveEffects(isAuthenticated, localCache, customFoods', dailyEntries')
    /\ UNCHANGED sessionVars

(* onChange of the portion field, App.tsx:1071 *)
setPortionSize(raw) ==
    /\ Mounted
    /\ portionSize' = raw
    /\ UNCHANGED elsewhere
    /\ UNCHANGED << vars, sessionVars, localCache >>

(* removeFoodEntry(entryId), App.tsx:508-538, up to the await of the push. *)
removeFoodEntry(entryId) ==
    /\ Mounted
    /\ ops < MaxOps
    /\ ops' = ops + 1
    /\ failed' = {}
    /\ IF entryId \notin Ids(dailyEntries)
       THEN \* lines 520-525 and the finally of 564-567: the flag ends up
            \* false, whatever a removal still in flight had set
            /\ isDeletingEntry' = FALSE
            /\ autoTimer' = IF isDeletingEntry
                            THEN AutosaveEffect(customFoods, dailyEntries, goals,
                                                FALSE, isManualSaving)
                            ELSE autoTimer
            /\ UNCHANGED << customFoods, dailyEntries, goals, isManualSaving,
                            resaveTimers, tasks, net, remote, nextId, nextKey,
                            acked, unsaved, faults >>
       ELSE /\ FreeTaskIds # {}
            /\ FreeReqIds # {}
            /\ LET updatedEntries == FilterId(dailyEntries, entryId)
                   removed == CHOOSE i \in 1..Len(dailyEntries) :
                                  dailyEntries[i].id = entryId
               IN /\ dailyEntries' = updatedEntries
                  /\ isDeletingEntry' = TRUE
                  /\ isManualSaving' = TRUE
                  /\ net' = net \cup { PushRequest(NewReqId, "remove", NewTaskId,
                                                   Override(updatedEntries), CurrentState) }
                  /\ tasks' = tasks \cup { Task(NewTaskId, "remove",
                                                dailyEntries[removed].key, CurrentState) }
                  /\ autoTimer' = AutosaveEffect(customFoods, updatedEntries, goals,
                                                 TRUE, TRUE)
            /\ unsaved' = FALSE
            /\ UNCHANGED << customFoods, goals, resaveTimers, remote, nextId,
                            nextKey, acked, faults >>
    /\ localCache' = LegacySaveEffects(isAuthenticated, localCache, customFoods', dailyEntries')
    /\ UNCHANGED << sessionVars, portionSize, elsewhere >>

(* updateGoals with goals that pass validateGoals, App.tsx:570-583 *)
updateGoals(newGoals) ==
    /\ Mounted
    /\ ops < MaxOps
    /\ ops' = ops + 1
    /\ goals' = newGoals
    /\ autoTimer' = AutosaveEffect(customFoods, dailyEntries, newGoals,
                                   isDeletingEntry, isManualSaving)
    /\ unsaved' = (unsaved \/ newGoals # goals)
    /\ failed' = {}
    /\ UNCHANGED << customFoods, dailyEntries, isDeletingEntry, isManualSaving,
                    resaveTimers, tasks, net, remote, nextId, nextKey, acked, faults >>
    /\ UNCHANGED << sessionVars, localCache, portionSize, elsewhere >>

SetCustomFoods(newFoods) ==
    /\ Mounted
    /\ ops < MaxOps
    /\ ops' = ops + 1
    /\ customFoods' = newFoods
    /\ autoTimer' = AutosaveEffect(newFoods, dailyEntries, goals,
                                   isDeletingEntry, isManualSaving)
    /\ unsaved' = TRUE
    /\ failed' = {}
    /\ UNCHANGED << dailyEntries, goals, isDeletingEntry, isManualSaving,
                    resaveTimers, tasks, net, remote, nextId, nextKey, acked, faults >>
    /\ localCache' = LegacySaveEffects(isAuthenticated, localCache, customFoods', dailyEntries')
    /\ UNCHANGED << sessionVars, portionSize, elsewhere >>

(* addCustomFood with a food that passes validateFood, App.tsx:266-306 *)
addCustomFood(food) ==
    /\ food \notin customFoods
    /\ SetCustomFoods(customFoods \cup {food})

(* deleteCustomFood, App.tsx:353-355 *)
deleteCustomFood(foodId) ==
    /\ foodId \in customFoods
    /\ SetCustomFoods(customFoods \ {foodId})

-----------------------------------------------------------------------------
(* The network and the remote store.  A request is "sent" until the server
   has handled it and "ok" from then until its response reaches the client.
   A request that fails (a network error, the 10 s timeout of part_004:65 or
   a 5xx answer) leaves the store as it was; the client sees the failure
   when the awaited promise settles. *)

Awaited(r) == r.origin \in {"add", "remove", "load"}

(* POST /api/user/data, server.js:228-329, with dbHelpers.saveUserData.  The
   response to a push nobody awaits is dropped on arrival. *)
ServerSaves(r) ==
    /\ r.kind = "push"
    /\ r.stage = "sent"
    /\ authenticateToken(r.tok) = 200
    /\ remote' = dbSaveUserData(r.data, nextId)
    /\ nextId' = nextId + Len(r.data.dailyEntries)
    /\ net' = IF Awaited(r) THEN (net \ {r}) \cup { [r EXCEPT !.stage = "ok"] }
              ELSE net \ {r}
    /\ UNCHANGED << customFoods, dailyEntries, goals, isDeletingEntry,
                    isManualSaving, autoTimer, resaveTimers, tasks, nextKey,
                    ops, acked, unsaved, failed, faults >>
    /\ UNCHANGED << sessionVars, localCache, portionSize, elsewhere >>

(* GET /api/user/data, server.js:215-226, with dbHelpers.getUserData *)
ServerLoads(r) ==
    /\ r.kind = "fetch"
    /\ r.stage = "sent"
    /\ authenticateToken(r.tok) = 200
    /\ net' = (net \ {r}) \cup { [r EXCEPT !.stage = "ok", !.data = dbGetUserData] }
    /\ UNCHANGED << customFoods, dailyEntries, goals, isDeletingEntry,
                    isManualSaving, autoTimer, resaveTimers, tasks, remote,
                    nextId, nextKey, ops, acked, unsaved, failed, faults >>
    /\ UNCHANGED << sessionVars, localCache, portionSize, elsewhere >>

(* A push nobody awaits fails: the autosave of line 221 and the re-save of
   line 192 drop the promise, so nothing follows. *)
UnawaitedPushFails(r) ==
    /\ r.kind = "push"
    /\ ~Awaited(r)
    /\ r.stage = "sent"
    /\ faults < MaxFaults
    /\ faults' = faults + 1
    /\ net' = net \ {r}
    /\ failed' = failed \cup {r.data}
    /\ UNCHANGED << customFoods, dailyEntries, goals, isDeletingEntry,
                    isManualSaving, autoTimer, resaveTimers, tasks, remote,
                    nextId, nextKey, ops, acked, unsaved >>
    /\ UNCHANGED << sessionVars, localCache, portionSize, elsewhere >>

-----------------------------------------------------------------------------
(* Continuations of the controller *)

(* A finally block that leaves a flag as it found it. *)
FlagKept(kind, flag) == flag

(* finally { setIsManualSaving(false) }, App.tsx:502-504 and 551-553 *)
finallyIsManualSaving(kind, flag) == FALSE

(* finally { setIsDeletingEntry(false) }, App.tsx:564-567: removeFoodEntry only *)
finallyIsDeletingEntry(kind, flag) == IF kind = "remove" THEN FALSE ELSE flag

TaskOf(r) == CHOOSE t \in tasks : t.tid = r.tid

(* The awaited promise of request r settles: with the response once the
   server has handled the request, with a failure before that. *)
Settles(r) ==
    IF r.stage = "ok" THEN faults' = faults
    ELSE faults < MaxFaults /\ faults' = faults + 1

(* The push awaited at App.tsx:495 / 538 settles, with success when the
   server has handled it and with failure otherwise.  saveUserDataToBackend
   discards the result of api.saveUserData, so the call goes on to
   loadUserDataFromBackend (lines 497 / 543) unless the promise rejected,
   which runs the catch block (lines 498-501 / 544-550) and the finally. *)
PushSettles(r) ==
    /\ r.kind = "push"
    /\ Awaited(r)
    /\ Settles(r)
    /\ LET t == TaskOf(r)
           ok == r.stage = "ok"
           saving == finallyIsManualSaving(t.kind, isManualSaving)
           deleting == finallyIsDeletingEntry(t.kind, isDeletingEntry)
       IN /\ acked' = IF ok THEN acked \cup {[kind |-> t.kind, key |-> t.key]} ELSE acked
          /\ failed' = IF ok THEN failed ELSE failed \cup {r.data}
          /\ IF RequestRejects(ok)
             THEN /\ dailyEntries' = t.originalEntries
                  /\ isManualSaving' = saving
                  /\ isDeletingEntry' = deleting
                  /\ autoTimer' = AutosaveEffect(customFoods, t.originalEntries, goals,
                                                 deleting, saving)
                  /\ tasks' = tasks \ {t}
                  /\ net' = net \ {r}
             ELSE /\ net' = (net \ {r}) \cup
                            { [FetchRequest(r.rid, t.kind, t.tid) EXCEPT !.orphan = t.orphan] }
                  /\ tasks' = (tasks \ {t}) \cup { [t EXCEPT !.pushOk = ok] }
                  /\ UNCHANGED << dailyEntries, isManualSaving, isDeletingEntry,
                                  autoTimer >>
    /\ UNCHANGED << customFoods, goals, resaveTimers, remote, nextId, nextKey,
                    ops, unsaved >>
    /\ localCache' = IF r.orphan THEN localCache
                     ELSE LegacySaveEffects(isAuthenticated, localCache, customFoods', dailyEntries')
    /\ UNCHANGED << sessionVars, portionSize, elsewhere >>

(* loadUserDataFromBackend after its await, App.tsx:181-196, followed, when
   the load was called by addFoodEntry / removeFoodEntry, by the finally
   blocks of lines 502-504 / 551-553 and 564-567.  The re-save of line 192
   is the saveUserDataToBackend of the render that started the call.  When
   the component that started the call has been unmounted, its state setters
   do nothing; the timeout of line 192 is set all the same. *)
FetchSettles(r) ==
    /\ r.kind = "fetch"
    /\ Settles(r)
    /\ LET ok == r.stage = "ok"
           inTask == r.origin # "load"
           closure == IF inTask THEN TaskOf(r).closure ELSE InitialState
           cleanEntries == cleanupNaNEntries(r.data.dailyEntries)
           alive == ~r.orphan
           newFoods == IF ok /\ alive THEN r.data.customFoods ELSE customFoods
           newEntries == IF ok /\ alive THEN cleanEntries ELSE dailyEntries
           newGoals == IF ok /\ alive THEN r.data.goals ELSE goals
           saving == IF inTask /\ alive THEN finallyIsManualSaving(r.origin, isManualSaving)
                     ELSE isManualSaving
           deleting == IF inTask /\ alive THEN finallyIsDeletingEntry(r.origin, isDeletingEntry)
                       ELSE isDeletingEntry
           rerun == alive /\ (ok \/ saving # isManualSaving \/ deleting # isDeletingEntry)
       IN /\ customFoods' = newFoods
          /\ dailyEntries' = newEntries
          /\ goals' = newGoals
          /\ resaveTimers' =
                IF ok /\ Len(cleanEntries) # Len(r.data.dailyEntries)
                THEN resaveTimers \cup {closure} ELSE resaveTimers
          /\ isManualSaving' = saving
          /\ isDeletingEntry' = deleting
          /\ autoTimer' = IF rerun
                          THEN AutosaveEffect(newFoods, newEntries, newGoals, deleting, saving)
                          ELSE autoTimer
          /\ tasks' = IF inTask THEN tasks \ {TaskOf(r)} ELSE tasks
          /\ unsaved' = IF ok /\ alive THEN FALSE ELSE unsaved
    /\ net' = net \ {r}
    /\ UNCHANGED << remote, nextId, nextKey, ops, acked, failed >>
    /\ localCache' = IF r.orphan THEN localCache
                     ELSE LegacySaveEffects(isAuthenticated, localCache, customFoods', dailyEntries')
    /\ UNCHANGED << sessionVars, portionSize, elsewhere >>

-----------------------------------------------------------------------------
(* Timers *)

(* 1000 ms pass with no change to a dependency of the autosave effect. *)
QuietIntervalElapses ==
    /\ autoTimer.phase = "waiting"
    /\ autoTimer' = [autoTimer EXCEPT !.phase = "due"]
    /\ UNCHANGED << customFoods, dailyEntries, goals, isDeletingEntry,
                    isManualSaving, resaveTimers, tasks, net, remote, nextId,
                    nextKey, ops, acked, unsaved, failed, faults >>
    /\ UNCHANGED << sessionVars, localCache, portionSize, elsewhere >>

(* The timeout of App.tsx:220-222 fires: saveUserDataToBackend() of the
   render that set it. *)
AutosaveFires ==
    /\ autoTimer.phase = "due"
    /\ FreeReqIds # {}
    /\ net' = net \cup { PushRequest(NewReqId, "autosave", 0, NoOverride, autoTimer.closure) }
    /\ autoTimer' = NoTimer
    /\ unsaved' = FALSE
    /\ UNCHANGED << customFoods, dailyEntries, goals, isDeletingEntry,
                    isManualSaving, resaveTimers, tasks, remote, nextId,
                    nextKey, ops, acked, failed, faults >>
    /\ UNCHANGED << sessionVars, localCache, portionSize, elsewhere >>

(* The timeout of App.tsx:192 fires: saveUserDataToBackend() of the render
   in which the load was started. *)
ResaveFires(closure) ==
    /\ closure \in resaveTimers
    /\ FreeReqIds # {}
    /\ net' = net \cup { PushRequest(NewReqId, "resave", 0, NoOverride, closure) }
    /\ resaveTimers' = resaveTimers \ {closure}
    /\ UNCHANGED << customFoods, dailyEntries, goals, isDeletingEntry,
                    isManualSaving, autoTimer, tasks, remote, nextId, nextKey,
                    ops, acked, unsaved, failed, faults >>
    /\ UNCHANGED << sessionVars, localCache, portionSize, elsewhere >>

-----------------------------------------------------------------------------
Next ==
    \/ addFoodEntry
    \/ \E entryId \in Ids(dailyEntries) \cup {nextId} : removeFoodEntry(entryId)
    \/ \E g \in GoalChoices : updateGoals(g)
    \/ \E f \in FoodKeys : addCustomFood(f)
    \/ \E f \in FoodKeys : deleteCustomFood(f)
    \/ \E r \in net : ServerSaves(r)
    \/ \E r \in net : ServerLoads(r)
    \/ \E r \in net : UnawaitedPushFails(r)
    \/ \E r \in net : PushSettles(r)
    \/ \E r \in net : FetchSettles(r)
    \/ QuietIntervalElapses
    \/ AutosaveFires
    \/ \E c \in resaveTimers : ResaveFires(c)

Spec == Init /\ [][Next]_allVars

(* The portion modal alone: the field is edited and the button is pressed. *)
NextPortion ==
    \/ \E raw \in PortionTexts : setPortionSize(raw)
    \/ addFoodEntry

PortionSpec == Init /\ [][NextPortion]_allVars

-----------------------------------------------------------------------------
(* The session lifecycle alone: the page is opened with whatever an earlier
   visit left in localStorage, and the session is then started, checked and
   ended.  The data controller is represented by the calls it makes. *)

Call(id, kind, tok) == [id |-> id, kind |-> kind, tok |-> tok, stage |-> "sent", status |-> 0]
Answered(c, status) == [c EXCEPT !.stage = "done", !.status = status]
NewCallId == Cardinality(calls) + 1

(* The status of the response: 0 stands for no response (network error or
   timeout). *)
Status(c, delivered) == IF delivered THEN authenticateToken(c.tok) ELSE 0

(* The state of the controller while MacroTracker is not rendered. *)
Unmounted ==
    /\ customFoods = {}
    /\ dailyEntries = NoEntries
    /\ goals = DefaultGoals
    /\ isDeletingEntry = FALSE
    /\ isManualSaving = FALSE
    /\ autoTimer = NoTimer
    /\ resaveTimers = {}
    /\ tasks = {}
    /\ net = {}
    /\ nextId = FirstFreeRowId
    /\ nextKey = FirstFreeKey
    /\ ops = 0
    /\ acked = {}
    /\ unsaved = FALSE
    /\ failed = {}
    /\ faults = 0
    /\ portionSize = DefaultPortion

(* localStorage as the program leaves it: login writes the token together
   with the user, logout and the 401 handler remove both. *)
StoredSessions == {<< NoToken, NoUser >>} \cup (Tokens \X Users)

SessionInit ==
    /\ Unmounted
    /\ NothingElsewhere
    /\ remote = InitialState
    /\ localCache = LegacyCache
    /\ user = NoUser
    /\ token = NoToken
    /\ loading = TRUE
    /\ apiToken = NoToken
    /\ authPc = "start"
    /\ now \in 0..MaxTime
    /\ calls = {}
    /\ lastAct = NoAct
    /\ \E stored \in StoredSessions : storedToken = stored[1] /\ storedUser = stored[2]

(* initializeAuth up to its await, part_004:580-605 *)
initializeAuth ==
    /\ authPc = "start"
    /\ IF storedToken = NoToken \/ storedUser = NoUser
       THEN /\ loading' = FALSE
            /\ authPc' = "done"
            /\ lastAct' = "initNoSession"
            /\ UNCHANGED << user, token, storedToken, storedUser, apiToken, calls >>
       ELSE IF isTokenExpired(storedToken)
       THEN /\ logout
            /\ loading' = FALSE
            /\ authPc' = "done"
            /\ lastAct' = "initExpired"
            /\ UNCHANGED calls
       ELSE /\ token' = storedToken
            /\ user' = storedUser
            /\ apiToken' = storedToken
            /\ calls' = calls \cup {Call(NewCallId, "verify", SentToken)}
            /\ authPc' = "verifying"
            /\ lastAct' = "initVerify"
            /\ UNCHANGED << loading, storedToken, storedUser >>
    /\ UNCHANGED << now, vars, localCache, portionSize, elsewhere >>

(* A startup that accepts whatever the server answers. *)
VerifyIgnoresAnswer(delivered) ==
    /\ authPc = "verifying"
    /\ \E c \in calls :
          /\ c.kind = "verify"
          /\ c.stage = "sent"
          /\ calls' = (calls \ {c}) \cup {Answered(c, Status(c, delivered))}
    /\ lastAct' = "verifyOk"
    /\ loading' = FALSE
    /\ authPc' = "done"
    /\ UNCHANGED << user, token, storedToken, storedUser, apiToken >>
    /\ UNCHANGED << now, vars, localCache, portionSize, elsewhere >>

(* initializeAuth after its await, part_004:605-615 *)
verifySettles(delivered) ==
    /\ authPc = "verifying"
    /\ \E c \in calls :
          /\ c.kind = "verify"
          /\ c.stage = "sent"
          /\ calls' = (calls \ {c}) \cup {Answered(c, Status(c, delivered))}
          /\ IF Status(c, delivered) = 200
             THEN /\ lastAct' = "verifyOk"
                  /\ UNCHANGED << user, token, storedToken, storedUser, apiToken >>
             ELSE /\ logout
                  /\ lastAct' = "verifyRejected"
    /\ loading' = FALSE
    /\ authPc' = "done"
    /\ UNCHANGED << now, vars, localCache, portionSize, elsewhere >>

(* login up to its await, part_004:634-642 *)
login ==
    /\ authPc = "done"
    /\ ~loading
    /\ ~isAuthenticated
    /\ Cardinality({c \in calls : c.kind = "login"}) < MaxLogins
    /\ calls' = calls \cup {Call(NewCallId, "login", SentToken)}
    /\ authPc' = "login"
    /\ lastAct' = "login"
    /\ UNCHANGED << user, token, loading, storedToken, storedUser, apiToken, now >>
    /\ UNCHANGED << vars, localCache, portionSize, elsewhere >>

(* login after its await, part_004:642-669; the token is signed by the server
   with the lifetime of server.js:150-154. *)
loginResponse(success) ==
    /\ authPc = "login"
    /\ \E c \in calls :
          /\ c.kind = "login"
          /\ c.stage = "sent"
          /\ calls' = (calls \ {c}) \cup {Answered(c, IF success THEN 200 ELSE 0)}
    /\ IF success
       THEN /\ token' = Jwt(now + TokenLifetime, TRUE)
            /\ \E u \in Users : user' = u /\ storedUser' = u
            /\ storedToken' = token'
            /\ apiToken' = token'
            /\ lastAct' = "loginOk"
       ELSE /\ lastAct' = "loginFailed"
            /\ UNCHANGED << user, token, storedToken, storedUser, apiToken >>
    /\ authPc' = "done"
    /\ UNCHANGED << loading, now >>

loginSettles(success) ==
    /\ loginResponse(success)
    /\ UNCHANGED << vars, localCache, portionSize, elsewhere >>

(* The Logout button of MacroTracker, App.tsx:793 *)
userLogout ==
    /\ Mounted
    /\ logout
    /\ lastAct' = "logout"
    /\ UNCHANGED << loading, authPc, now, calls, vars, localCache, portionSize, elsewhere >>

(* An interval callback that does not act on what it finds. *)
IntervalTickIdle ==
    /\ token # NoToken
    /\ lastAct' = "tick"
    /\ UNCHANGED << user, token, storedToken, storedUser, apiToken >>
    /\ UNCHANGED << loading, authPc, now, calls, vars, localCache, portionSize, elsewhere >>

(* The callback of the 60 s interval, part_004:621-632 *)
intervalTick ==
    /\ token # NoToken
    /\ IF isTokenExpired(token)
       THEN /\ logout
            /\ lastAct' = "tickExpired"
       ELSE /\ lastAct' = "tick"
            /\ UNCHANGED << user, token, storedToken, storedUser, apiToken >>
    /\ UNCHANGED << loading, authPc, now, calls, vars, localCache, portionSize, elsewhere >>

timePasses ==
    /\ now < MaxTime
    /\ now' = now + 1
    /\ UNCHANGED << user, token, loading, storedToken, storedUser, apiToken, authPc, calls, lastAct >>
    /\ UNCHANGED << vars, localCache, portionSize, elsewhere >>

(* A call of the data controller: getUserData or saveUserData,
   part_004:152-158, issued by MacroTracker, App.tsx:178-215. *)
dataCall ==
    /\ Mounted
    /\ Cardinality(calls) < MaxCalls
    /\ calls' = calls \cup {Call(NewCallId, "data", SentToken)}
    /\ lastAct' = "call"
    /\ UNCHANGED << user, token, loading, storedToken, storedUser, apiToken, authPc, now >>
    /\ UNCHANGED << vars, localCache, portionSize, elsewhere >>

(* The response to a data call.  The response interceptor, part_004:82-98,
   handles status 401 only: it removes the stored session and navigates to
   /login, which loads the page anew.  With any other failure request()
   returns success: false, part_004:124-133, and the controller goes on,
   App.tsx:178-215. *)
dataCallSettles(c, delivered) ==
    /\ c.kind = "data"
    /\ c.stage = "sent"
    /\ IF Status(c, delivered) = 401
       THEN /\ storedToken' = NoToken
            /\ storedUser' = NoUser
            /\ user' = NoUser
            /\ token' = NoToken
            /\ apiToken' = NoToken
            /\ loading' = TRUE
            /\ authPc' = "start"
            /\ calls' = {Answered(d, IF d = c THEN 401 ELSE 0) : d \in {e \in calls : e.stage = "sent"}}
                            \cup {e \in calls : e.stage = "done"}
       ELSE /\ calls' = (calls \ {c}) \cup {Answered(c, Status(c, delivered))}
            /\ UNCHANGED << user, token, loading, storedToken, storedUser, apiToken, authPc >>
    /\ lastAct' = "settled"
    /\ UNCHANGED << now, vars, localCache, portionSize, elsewhere >>

NextSession ==
    \/ initializeAuth
    \/ \E delivered \in BOOLEAN : verifySettles(delivered)
    \/ login
    \/ \E success \in BOOLEAN : loginSettles(success)
    \/ userLogout
    \/ intervalTick
    \/ timePasses
    \/ dataCall
    \/ \E c \in calls, delivered \in BOOLEAN : dataCallSettles(c, delivered)

SessionSpec == SessionInit /\ [][NextSession]_allVars

-----------------------------------------------------------------------------
(* The session and the controller together: the user of Spec logs out while
   calls of the controller are on their way. *)

(* AuthenticatedApp, App.tsx:1548-1564, stops rendering MacroTracker: its
   state is gone, the cleanup of the autosave effect clears its timeout
   (App.tsx:224), and the calls it started go on without it. *)
logoutUnmounts ==
    /\ Mounted
    /\ logout
    /\ lastAct' = "logout"
    /\ customFoods' = InitialState.customFoods
    /\ dailyEntries' = InitialState.dailyEntries
    /\ goals' = InitialState.goals
    /\ isDeletingEntry' = FALSE
    /\ isManualSaving' = FALSE
    /\ portionSize' = DefaultPortion
    /\ UNCHANGED elsewhere
    /\ autoTimer' = NoTimer
    /\ tasks' = {[t EXCEPT !.orphan = TRUE] : t \in tasks}
    /\ net' = {[r EXCEPT !.orphan = TRUE] : r \in net}
    /\ UNCHANGED << loading, authPc, now, calls, localCache, resaveTimers, remote,
                    nextId, nextKey, ops, acked, unsaved, failed, faults >>

(* A request without a token is answered 401, server.js:100-102, and the
   response interceptor, part_004:82-98, removes the stored session and
   navigates to /login: the page is loaded anew, and what the old page had
   pending is gone with it. *)
Unauthorized(r) ==
    /\ r.stage = "sent"
    /\ authenticateToken(r.tok) = 401
    /\ storedToken' = NoToken
    /\ storedUser' = NoUser
    /\ user' = NoUser
    /\ token' = NoToken
    /\ apiToken' = NoToken
    /\ loading' = TRUE
    /\ authPc' = "start"
    /\ lastAct' = "reload"
    /\ customFoods' = InitialState.customFoods
    /\ dailyEntries' = InitialState.dailyEntries
    /\ goals' = InitialState.goals
    /\ isDeletingEntry' = FALSE
    /\ isManualSaving' = FALSE
    /\ portionSize' = DefaultPortion
    /\ UNCHANGED elsewhere
    /\ autoTimer' = NoTimer
    /\ resaveTimers' = {}
    /\ tasks' = {}
    /\ net' = {}
    /\ UNCHANGED << now, calls, localCache, remote, nextId, nextKey, ops, acked,
                    unsaved, failed, faults >>

(* login after its await; when it succeeds AuthenticatedApp renders
   MacroTracker, whose effects run: the load of App.tsx:171-175, the legacy
   load of App.tsx:229-249, the legacy saves of App.tsx:252-263 and the
   autosave effect of App.tsx:218-226. *)
loginMounts(success) ==
    /\ loginResponse(success)
    /\ IF success
       THEN /\ FreeReqIds # {}
            /\ net' = net \cup { [FetchRequest(NewReqId, "load", 0) EXCEPT !.tok = token'] }
            /\ customFoods' = LegacyLoadEffect(isAuthenticated', localCache, InitialState).customFoods
            /\ dailyEntries' = LegacyLoadEffect(isAuthenticated', localCache, InitialState).dailyEntries
            /\ goals' = LegacyLoadEffect(isAuthenticated', localCache, InitialState).goals
            /\ localCache' = LegacySaveEffects(isAuthenticated', localCache, customFoods', dailyEntries')
            /\ autoTimer' = IF isAuthenticated'
                            THEN AutosaveEffect(customFoods', dailyEntries', goals', FALSE, FALSE)
                            ELSE NoTimer
       ELSE UNCHANGED << net, customFoods, dailyEntries, goals, localCache, autoTimer >>
    /\ UNCHANGED << isDeletingEntry, isManualSaving, resaveTimers, tasks, remote, nextId,
                    nextKey, ops, acked, unsaved, failed, faults, portionSize, elsewhere >>

NextLogout ==
    \/ addFoodEntry
    \/ \E entryId \in Ids(dailyEntries) : removeFoodEntry(entryId)
    \/ \E r \in net : ServerSaves(r)
    \/ \E r \in net : ServerLoads(r)
    \/ \E r \in net : PushSettles(r)
    \/ \E r \in net : FetchSettles(r)
    \/ QuietIntervalElapses
    \/ AutosaveFires
    \/ \E c \in resaveTimers : ResaveFires(c)
    \/ logoutUnmounts
    \/ \E r \in net : Unauthorized(r)
    \/ initializeAuth

LogoutSpec == Init /\ [][NextLogout]_allVars

-----------------------------------------------------------------------------
(* From the login form to the tracker: the page is opened with no stored
   session, the user logs in, and MacroTracker mounts and runs. *)

LoginInit ==
    /\ Unmounted
    /\ NothingElsewhere
    /\ remote \in InitialRemotes
    /\ localCache = LegacyCache
    /\ user = NoUser
    /\ token = NoToken
    /\ loading = TRUE
    /\ storedToken = NoToken
    /\ storedUser = NoUser
    /\ apiToken = NoToken
    /\ authPc = "start"
    /\ now = 0
    /\ calls = {}
    /\ lastAct = NoAct

NextLogin ==
    \/ initializeAuth
    \/ login
    \/ \E success \in BOOLEAN : loginMounts(success)
    \/ Next

LoginSpec == LoginInit /\ [][NextLogin]_allVars

-----------------------------------------------------------------------------
(* Functions studied on their own.  The program is at rest: nobody is logged
   in and nothing is in flight; a function is applied to an argument and its
   result is kept. *)

AtRest ==
    /\ Unmounted
    /\ remote = InitialState
    /\ localCache = LegacyCache
    /\ user = NoUser
    /\ token = NoToken
    /\ loading = FALSE
    /\ storedToken = NoToken
    /\ storedUser = NoUser
    /\ apiToken = NoToken
    /\ authPc = "done"
    /\ now = 0
    /\ calls = {}
    /\ lastAct = NoAct

programVars == << vars, sessionVars, localCache, portionSize >>

(* JavaScript numbers: the finite ones, NaN and the two infinities. *)
Fin(n) == [kind |-> "fin", n |-> n]
NaN == [kind |-> "nan", n |-> 0]
PosInf == [kind |-> "inf", n |-> 1]
NegInf == [kind |-> "inf", n |-> 0 - 1]
Numbers == {Fin(0), Fin(1), NaN, PosInf, NegInf}

isNaN(v) == v.kind = "nan"

Dates == {"today", "yesterday"}

MacroEntry(date, calories, protein, carbs, fat) ==
    [date |-> date, calories |-> calories, protein |-> protein, carbs |-> carbs, fat |-> fat]

MacroEntries ==
    {MacroEntry(d, c, p, cb, f) : d \in {"today"}, c \in Numbers, p \in Numbers,
                                  cb \in Numbers, f \in Numbers}

(* The test of the filter in cleanupNaNEntries, App.tsx:140-147: TRUE for an
   entry that is removed. *)
removesEntry(entry) ==
    isNaN(entry.calories) \/ isNaN(entry.protein) \/ isNaN(entry.carbs) \/ isNaN(entry.fat)

(* The test of the filter in countCorruptedEntries, App.tsx:151-155: TRUE for
   an entry that is counted. *)
countsEntry(entry) ==
    isNaN(entry.calories) \/ isNaN(entry.protein) \/ isNaN(entry.carbs) \/ isNaN(entry.fat)

GuardInit ==
    /\ AtRest
    /\ arg \in {[of |-> "entry", entry |-> e] : e \in MacroEntries}
    /\ result = NoResult
    /\ ServerIdle

classifyEntry ==
    /\ arg.of = "entry"
    /\ result = NoResult
    /\ result' = [of |-> "guard", removed |-> removesEntry(arg.entry),
                                  counted |-> countsEntry(arg.entry)]
    /\ UNCHANGED << programVars, arg, serverVars >>

NextGuard == classifyEntry

GuardSpec == GuardInit /\ [][NextGuard]_allVars

(* Addition of JavaScript numbers. *)
Plus(a, b) ==
    IF isNaN(a) \/ isNaN(b) THEN NaN
    ELSE IF a.kind = "inf" /\ b.kind = "inf" THEN (IF a = b THEN a ELSE NaN)
    ELSE IF a.kind = "inf" THEN a
    ELSE IF b.kind = "inf" THEN b
    ELSE Fin(a.n + b.n)

Totals(c, p, cb, f) == [calories |-> c, protein |-> p, carbs |-> cb, fat |-> f]

(* The reducer of dailyTotals, App.tsx:382-394 *)
addToTotals(totals, entry) ==
    LET safeCalories == IF isNaN(entry.calories) THEN Fin(0) ELSE entry.calories
        safeProtein == IF isNaN(entry.protein) THEN Fin(0) ELSE entry.protein
        safeCarbs == IF isNaN(entry.carbs) THEN Fin(0) ELSE entry.carbs
        safeFat == IF isNaN(entry.fat) THEN Fin(0) ELSE entry.fat
    IN Totals(Plus(totals.calories, safeCalories), Plus(totals.protein, safeProtein),
              Plus(totals.carbs, safeCarbs), Plus(totals.fat, safeFat))

RECURSIVE reduceTotals(_, _, _)
reduceTotals(entries, selectedDate, totals) ==
    IF entries = << >> THEN totals
    ELSE reduceTotals(Tail(entries), selectedDate,
                      IF Head(entries).date = selectedDate
                      THEN addToTotals(totals, Head(entries)) ELSE totals)

(* dailyTotals, App.tsx:380-395 *)
dailyTotals(entries, selectedDate) ==
    reduceTotals(entries, selectedDate, Totals(Fin(0), Fin(0), Fin(0), Fin(0)))

(* countCorruptedEntries, App.tsx:151-155, on entries with their macros *)
countCorruptedMacros(entries) ==
    Cardinality({i \in 1..Len(entries) : countsEntry(entries[i])})

SampleNumbers == {Fin(1), NaN, PosInf}

SampleEntries ==
    {MacroEntry(d, c, p, cb, f) : d \in Dates, c \in SampleNumbers, p \in SampleNumbers,
                                  cb \in SampleNumbers, f \in SampleNumbers}

EntryLists == UNION {[1..n -> SampleEntries] : n \in 0..MaxEntries}

TotalsInit ==
    /\ AtRest
    /\ arg \in {[of |-> "entries", entries |-> l, selectedDate |-> "today"] : l \in EntryLists}
    /\ result = NoResult
    /\ ServerIdle

aggregate ==
    /\ arg.of = "entries"
    /\ result = NoResult
    /\ result' = [of |-> "totals", totals |-> dailyTotals(arg.entries, arg.selectedDate),
                                   corrupted |-> countCorruptedMacros(arg.entries)]
    /\ UNCHANGED << programVars, arg, serverVars >>

NextTotals == aggregate

TotalsSpec == TotalsInit /\ [][NextTotals]_allVars

-----------------------------------------------------------------------------
(* Strings, as the sequences of their characters *)

Strings(alphabet, maxLen) == UNION {[1..n -> alphabet] : n \in 0..maxLen}

isSpace(c) == c = " "

RECURSIVE trimStart(_)
trimStart(str) ==
    IF str # << >> /\ isSpace(Head(str)) THEN trimStart(Tail(str)) ELSE str

RECURSIVE trimEnd(_)
trimEnd(str) ==
    IF str # << >> /\ isSpace(str[Len(str)]) THEN trimEnd(SubSeq(str, 1, Len(str) - 1)) ELSE str

(* String.prototype.trim *)
trim(str) == trimEnd(trimStart(str))

(* escapeMap, part_004:438-444 *)
escapeMap(c) ==
    CASE c = "<" -> << "&", "l", "t", ";" >>
      [] c = ">" -> << "&", "g", "t", ";" >>
      [] c = "\"" -> << "&", "q", "u", "o", "t", ";" >>
      [] c = "'" -> << "&", "#", "x", "2", "7", ";" >>
      [] c = "&" -> << "&", "a", "m", "p", ";" >>
      [] OTHER -> << c >>

(* replace(/[<>'"&]/g, ...), part_004:437-446 *)
RECURSIVE replaceAll(_)
replaceAll(str) ==
    IF str = << >> THEN << >> ELSE escapeMap(Head(str)) \o replaceAll(Tail(str))

(* sanitizeString, part_004:436-447 *)
sanitizeString(input) == replaceAll(trim(input))

(* The name test of validateFood, part_004:208-215 *)
validFoodName(name) == Len(trim(name)) >= 2 /\ Len(trim(name)) <= 100

NameAlphabet == {"a", " ", "&", "<", "'"}

SanitizeInit ==
    /\ AtRest
    /\ ServerIdle
    /\ arg \in {[of |-> "name", name |-> n] : n \in Strings(NameAlphabet, MaxName)}
    /\ result = NoResult

(* addCustomFood, App.tsx:266-306, as far as the name goes: the typed name
   is sanitized, validated and stored. *)
saveTypedName ==
    /\ arg.of = "name"
    /\ result = NoResult
    /\ result' = IF validFoodName(sanitizeString(arg.name))
                  THEN [of |-> "food", name |-> sanitizeString(arg.name), saves |-> 1]
                  ELSE [of |-> "rejected"]
    /\ UNCHANGED << programVars, arg, serverVars >>

(* startEditingFood, App.tsx:357-370, followed by updateCustomFood,
   App.tsx:308-351, with the name field left as the form was filled. *)
resaveUnchangedName ==
    /\ result.of = "food"
    /\ result.saves < MaxSaves
    /\ LET newFoodName == result.name
       IN result' = IF validFoodName(sanitizeString(newFoodName))
                    THEN [result EXCEPT !.name = sanitizeString(newFoodName),
                                        !.saves = @ + 1]
                    ELSE result
    /\ UNCHANGED << programVars, arg, serverVars >>

NextSanitize == saveTypedName \/ resaveUnchangedName

SanitizeSpec == SanitizeInit /\ [][NextSanitize]_allVars

-----------------------------------------------------------------------------
(* Credential checks *)

(* /^[a-zA-Z0-9_]+$/, part_004:516, over the characters of the samples *)
isWordChar(c) == c \in {"a", "Z", "9", "_"}

matchesWord(str) == str # << >> /\ \A i \in 1..Len(str) : isWordChar(str[i])

(* validateCredentials, part_004:505-524 *)
validateCredentials(username, password) ==
    LET errors ==
            (IF username = << >> \/ Len(trim(username)) < 3 THEN {"username length"} ELSE {})
            \cup (IF password = << >> \/ Len(password) < 6 THEN {"password length"} ELSE {})
            \cup (IF username # << >> /\ ~matchesWord(trim(username))
                  THEN {"username characters"} ELSE {})
    IN [valid |-> errors = {}, errors |-> errors]

(* The basic validation of POST /api/auth/register, server.js:118-129 *)
registerValidation(username, password) ==
    IF username = << >> \/ password = << >> THEN 400
    ELSE IF Len(username) < 3 THEN 400
    ELSE IF Len(password) < 6 THEN 400
    ELSE 200

UsernameAlphabet == {"a", "_", " ", "!"}

Passwords == {[i \in 1..n |-> "p"] : n \in {0, 5, 6, 7}}

CredentialInit ==
    /\ AtRest
    /\ ServerIdle
    /\ arg \in {[of |-> "credentials", username |-> u, password |-> p] :
                   u \in Strings(UsernameAlphabet, MaxName + 1), p \in Passwords}
    /\ result = NoResult

checkCredentials ==
    /\ arg.of = "credentials"
    /\ result = NoResult
    /\ result' = [of |-> "checked",
                  client |-> validateCredentials(arg.username, arg.password).valid,
                  server |-> registerValidation(arg.username, arg.password) = 200]
    /\ UNCHANGED << programVars, arg, serverVars >>

NextCredential == checkCredentials

CredentialSpec == CredentialInit /\ [][NextCredential]_allVars

-----------------------------------------------------------------------------
(* The data routes of the server: server.js:214-351 over the store of
   db.js.  The repository holds two versions of the store module:
   backend/db.js ("sqlite-old") and the one of part_006:374-725 ("sqlite"),
   which also keeps calculator data and has deleteDailyEntry. *)

(* The values a JSON body can hold in a field. *)
Undefined == [type |-> "undefined"]
Num(n) == [type |-> "number", n |-> n]
Str(chars) == [type |-> "string", chars |-> chars]
Arr(items) == [type |-> "array", items |-> items]
Obj(fields) == [type |-> "object", fields |-> fields]

(* ToBoolean *)
truthy(v) ==
    CASE v.type = "undefined" -> FALSE
      [] v.type = "number" -> v.n # 0
      [] v.type = "string" -> v.chars # << >>
      [] OTHER -> TRUE

typeof(v) == IF v.type = "array" THEN "object" ELSE v.type

isArray(v) == v.type = "array"

(* Property access, v[name] *)
prop(v, name) ==
    IF v.type = "object" /\ name \in DOMAIN v.fields THEN v.fields[name] ELSE Undefined

Accounts == {"a", "b"}

UserRow(id) == [id |-> id, username |-> << id >>]

(* The token jwt.sign of server.js:150-154 issues for the account. *)
Bearer(id) == [shape |-> "jwt", exp |-> TokenLifetime, signed |-> TRUE, id |-> id]

(* A token for the account that jwt.verify does not accept. *)
Forged(id) == [shape |-> "jwt", exp |-> TokenLifetime, signed |-> FALSE, id |-> id]

(* A custom food as App.tsx:291-301 builds it. *)
Food(name, calories) ==
    [id |-> TempBase + 1, name |-> name, calories |-> calories, protein |-> 17,
     carbs |-> 66, fat |-> 7, serving |-> "100g", unit |-> "g"]

GoodFood == Food(<< "o", "a", "t" >>, 389)

(* The food of the API test of VALIDATION_GUIDE.md:191-198 *)
BadFood == Food(<< >>, 0 - 100)

(* A daily entry as App.tsx:464-477 builds it. *)
SentEntry(k) ==
    [id |-> TempBase + k, foodId |-> k, name |-> << "o", "a", "t" >>, servings |-> 1,
     portionSize |-> 50 * k, unit |-> "g", calories |-> 195 * k, protein |-> 8 * k,
     carbs |-> 33 * k, fat |-> 3 * k, date |-> "today", mealTime |-> "12:00"]

GoalFields == {"calories", "protein", "carbs", "fat"}

GoalsObject(calories) ==
    Obj([calories |-> calories, protein |-> Num(150), carbs |-> Num(250), fat |-> Num(67)])

Body(cf, de, g) == [customFoods |-> cf, dailyEntries |-> de, goals |-> g]

(* The bodies sent to POST /api/user/data: well-formed ones, and ones in
   which one field has the wrong shape.  None carries calculatorData. *)
FoodFields == {Undefined, Arr(<< GoodFood >>), Arr(<< BadFood >>), Num(0), Str(<< "x" >>)}

EntryFields ==
    {Undefined, Arr(<< SentEntry(1) >>), Arr(<< SentEntry(1), SentEntry(2) >>),
     Num(0), Str(<< "x" >>)}

GoalsFields ==
    {Undefined, GoalsObject(Num(2000)), GoalsObject(Str(<< "x" >>)), Arr(<< >>), Str(<< "x" >>)}

WellFormed == Body(Arr(<< GoodFood >>), Arr(<< SentEntry(1) >>), GoalsObject(Num(2000)))

Bodies ==
    {Body(cf, WellFormed.dailyEntries, WellFormed.goals) : cf \in FoodFields}
    \cup {Body(WellFormed.customFoods, de, WellFormed.goals) : de \in EntryFields}
    \cup {Body(WellFormed.customFoods, WellFormed.dailyEntries, g) : g \in GoalsFields}
    \cup {Body(Undefined, Undefined, Undefined)}

(* The validation of POST /api/user/data, server.js:232-285: the status it
   answers with, 200 when it lets the body through. *)
validGoal(v, max) == ~(truthy(v) /\ (typeof(v) # "number" \/ v.n < 0 \/ v.n > max))

validFood(food) ==
    /\ food.name # << >> /\ Len(trim(food.name)) >= 2
    /\ food.calories >= 0 /\ food.calories <= 9000
    /\ food.protein >= 0 /\ food.protein <= 100
    /\ food.carbs >= 0 /\ food.carbs <= 100
    /\ food.fat >= 0 /\ food.fat <= 100

validateBody(body) ==
    IF truthy(body.customFoods) /\ ~isArray(body.customFoods) THEN 400
    ELSE IF truthy(body.dailyEntries) /\ ~isArray(body.dailyEntries) THEN 400
    ELSE IF truthy(body.goals) /\ typeof(body.goals) # "object" THEN 400
    ELSE IF truthy(body.goals)
            /\ ~(/\ validGoal(prop(body.goals, "calories"), 10000)
                 /\ validGoal(prop(body.goals, "protein"), 500)
                 /\ validGoal(prop(body.goals, "carbs"), 1000)
                 /\ validGoal(prop(body.goals, "fat"), 300)) THEN 400
    ELSE IF truthy(body.customFoods)
            /\ \E i \in 1..Len(body.customFoods.items) : ~validFood(body.customFoods.items[i])
         THEN 400
    ELSE 200

(* x || [] of server.js:314-315 *)
orEmpty(v) == IF truthy(v) THEN v.items ELSE << >>

(* goals || {calories: 2200, ...} of server.js:316, field by field *)
orDefaultGoals(v) ==
    [f \in GoalFields |-> IF truthy(v) THEN prop(v, f) ELSE Num(DefaultGoals[f])]

(* 'WHERE user_id = ?' *)
ownedBy(rows, userId) == SelectSeq(rows, LAMBDA row : row.user_id = userId)

notOwnedBy(rows, userId) == SelectSeq(rows, LAMBDA row : row.user_id # userId)

(* insertCustomFood, db.js:113-116, for each food in turn *)
RECURSIVE insertCustomFoods(_, _, _, _)
insertCustomFoods(rows, foods, userId, lastId) ==
    IF foods = << >> THEN rows
    ELSE insertCustomFoods(
             Append(rows, [id |-> lastId + 1, user_id |-> userId, name |-> Head(foods).name,
                           calories |-> Head(foods).calories, protein |-> Head(foods).protein,
                           carbs |-> Head(foods).carbs, fat |-> Head(foods).fat,
                           serving |-> Head(foods).serving]),
             Tail(foods), userId, lastId + 1)

(* insertDailyEntry, db.js:121-124, for each entry in turn *)
RECURSIVE insertDailyEntries(_, _, _, _)
insertDailyEntries(rows, entries, userId, lastId) ==
    IF entries = << >> THEN rows
    ELSE insertDailyEntries(
             Append(rows, [id |-> lastId + 1, user_id |-> userId,
                           food_id |-> Head(entries).foodId, name |-> Head(entries).name,
                           servings |-> Head(entries).servings,
                           calories |-> Head(entries).calories, protein |-> Head(entries).protein,
                           carbs |-> Head(entries).carbs, fat |-> Head(entries).fat,
                           date |-> Head(entries).date, meal_time |-> Head(entries).mealTime]),
             Tail(entries), userId, lastId + 1)

(* upsertGoals, db.js:129-138 *)
upsertGoals(rows, userId, g) ==
    {row \in rows : row.user_id # userId}
    \cup {[user_id |-> userId, calories |-> g.calories.n, protein |-> g.protein.n,
           carbs |-> g.carbs.n, fat |-> g.fat.n]}

(* The statements of the transaction run to the end: a field of goals that
   is undefined cannot be bound to the NOT NULL columns of user_goals. *)
transactionCommits(data) == \A f \in GoalFields : data.goals[f].type = "number"

(* The statements of db.js:197-235 run outside a transaction: the rows
   replaced before the statement that throws stay replaced. *)
saveWithoutRollback(database, userId, data) ==
    LET replaced ==
          [database EXCEPT
             !.custom_foods = insertCustomFoods(notOwnedBy(@, userId), data.customFoods,
                                                userId, database.sequence.custom_foods),
             !.daily_entries = insertDailyEntries(notOwnedBy(@, userId), data.dailyEntries,
                                                  userId, database.sequence.daily_entries),
             !.sequence = [custom_foods |-> @.custom_foods + Len(data.customFoods),
                           daily_entries |-> @.daily_entries + Len(data.dailyEntries)]]
    IN IF ~transactionCommits(data) THEN replaced
       ELSE [replaced EXCEPT !.user_goals = upsertGoals(@, userId, data.goals)]

(* dbHelpers.saveUserData, db.js:190-246 and part_006:631-709: the store
   after the transaction, which is rolled back when a statement throws. *)
saveUserData(database, userId, data) ==
    IF ~transactionCommits(data) THEN database
    ELSE [database EXCEPT
            !.user_goals = upsertGoals(@, userId, data.goals),
            !.custom_foods = insertCustomFoods(notOwnedBy(@, userId), data.customFoods,
                                               userId, database.sequence.custom_foods),
            !.daily_entries = insertDailyEntries(notOwnedBy(@, userId), data.dailyEntries,
                                                 userId, database.sequence.daily_entries),
            !.sequence = [custom_foods |-> @.custom_foods + Len(data.customFoods),
                          daily_entries |-> @.daily_entries + Len(data.dailyEntries)]]

(* The mapping of part_006:582-586; db.js:166 returns the rows as they are. *)
mapEntry(bld, row) ==
    IF bld = "sqlite"
    THEN [f \in DOMAIN row \cup {"mealTime", "foodId"} |->
             IF f = "mealTime" THEN row.meal_time
             ELSE IF f = "foodId" THEN row.food_id ELSE row[f]]
    ELSE row

(* dbHelpers.getUserData, db.js:163-188 and part_006:576-629 *)
getUserData(database, bld, userId) ==
    LET rawDailyEntries == ownedBy(database.daily_entries, userId)
        goalRows == {row \in database.user_goals : row.user_id = userId}
        found == IF goalRows = {} THEN DefaultGoals ELSE CHOOSE row \in goalRows : TRUE
    IN [customFoods |-> ownedBy(database.custom_foods, userId),
        dailyEntries |-> [i \in 1..Len(rawDailyEntries) |-> mapEntry(bld, rawDailyEntries[i])],
        goals |-> [f \in GoalFields |-> found[f]]]

(* A delete statement that looks at the row id alone. *)
deleteAnyEntry(rows, entryId, userId) == SelectSeq(rows, LAMBDA row : row.id # entryId)

(* statements.deleteDailyEntry, part_006:523 *)
deleteDailyEntryStatement(rows, entryId, userId) ==
    SelectSeq(rows, LAMBDA row : ~(row.id = entryId /\ row.user_id = userId))

RequestTokens == {NoToken} \cup {Bearer(id) : id \in Accounts} \cup {Forged("a")}

EntryIds == 1..2

DataInit ==
    /\ AtRest
    /\ arg = NoArg
    /\ result = NoResult
    /\ build \in {"sqlite-old", "sqlite"}
    /\ db = [EmptyDb EXCEPT !.users = << UserRow("a"), UserRow("b") >>]
    /\ handlers = {}
    /\ reply = NoReply
    /\ served = 0

Handled(of, tok, status) == [of |-> of, tok |-> tok, status |-> status]

(* A request that authenticateToken turns away, server.js:96-111 *)
turnedAway(of, tok) ==
    /\ served < MaxServed
    /\ authenticateToken(tok) # 200
    /\ reply' = Handled(of, tok, authenticateToken(tok))
    /\ served' = served + 1
    /\ UNCHANGED << programVars, pureVars, build, db, handlers >>

(* POST /api/user/data, server.js:228-329 *)
postUserData(tok, body) ==
    /\ served < MaxServed
    /\ authenticateToken(tok) = 200
    /\ LET data == [customFoods |-> orEmpty(body.customFoods),
                    dailyEntries |-> orEmpty(body.dailyEntries),
                    goals |-> orDefaultGoals(body.goals)]
           status == IF validateBody(body) # 200 THEN validateBody(body)
                     ELSE IF ~transactionCommits(data) THEN 500
                     ELSE 200
       IN /\ db' = IF validateBody(body) = 200 THEN saveUserData(db, tok.id, data) ELSE db
          /\ reply' = [of |-> "write", tok |-> tok, status |-> status, body |-> body]
    /\ served' = served + 1
    /\ UNCHANGED << programVars, pureVars, build, handlers >>

(* GET /api/user/data, server.js:215-226 *)
getUserDataRoute(tok) ==
    /\ served < MaxServed
    /\ authenticateToken(tok) = 200
    /\ reply' = [of |-> "read", tok |-> tok, status |-> 200,
                 data |-> getUserData(db, build, tok.id)]
    /\ served' = served + 1
    /\ UNCHANGED << programVars, pureVars, build, db, handlers >>

(* DELETE /api/user/daily-entry/:entryId, server.js:332-351, with
   dbHelpers.deleteDailyEntry of part_006:711-719.  backend/db.js has no
   deleteDailyEntry: the call throws and the route answers 500. *)
deleteDailyEntryRoute(tok, entryId) ==
    /\ served < MaxServed
    /\ authenticateToken(tok) = 200
    /\ LET remaining == deleteDailyEntryStatement(db.daily_entries, entryId, tok.id)
           changes == Len(db.daily_entries) - Len(remaining)
           status == IF build = "sqlite-old" THEN 500
                     ELSE IF changes > 0 THEN 200 ELSE 404
       IN /\ db' = IF build = "sqlite-old" THEN db
                   ELSE [db EXCEPT !.daily_entries = remaining]
          /\ reply' = [of |-> "delete", tok |-> tok, status |-> status, entryId |-> entryId]
    /\ served' = served + 1
    /\ UNCHANGED << programVars, pureVars, build, handlers >>

NextData ==
    \/ \E of \in {"write", "read", "delete"}, tok \in RequestTokens : turnedAway(of, tok)
    \/ \E tok \in RequestTokens, body \in Bodies : postUserData(tok, body)
    \/ \E tok \in RequestTokens : getUserDataRoute(tok)
    \/ \E tok \in RequestTokens, entryId \in EntryIds : deleteDailyEntryRoute(tok, entryId)

DataSpec == DataInit /\ [][NextData]_allVars

-----------------------------------------------------------------------------
(* Registration: POST /api/auth/register of server.js:114-169 over the
   users table of db.js ("sqlite"), and of the server of part_006:157-223
   over users.json ("file").  The runs stay below the five requests that
   authLimiter lets through in one window. *)

(* String.prototype.toLowerCase, over the characters of the samples *)
toLowerCase(str) == [i \in 1..Len(str) |-> IF str[i] = "A" THEN "a" ELSE str[i]]

Usernames == {<< "A", "n", "n" >>, << "a", "n", "n" >>, << "b", "o", "b" >>, << "a", "l" >>}

Password == << "p", "p", "p", "p", "p", "p" >>

(* Date.now().toString() of server.js:142: the clock may not have moved
   since the last account was created. *)
Timestamps == 1..MaxRegistrations

idsOf(rows) == {rows[i].id : i \in 1..Len(rows)}

ClockReadings(rows) == {t \in Timestamps : \A id \in idsOf(rows) : t >= id}

(* findUserByUsername, db.js:154-161 with the statement of db.js:109; the
   file server's users.find of part_006:178 compares the same way. *)
findUserByUsername(rows, username) ==
    \E i \in 1..Len(rows) : toLowerCase(rows[i].username) = toLowerCase(username)

(* createUser, db.js:144-152: the INSERT fails on the PRIMARY KEY of id and
   on the UNIQUE constraint of username, db.js:39-40. *)
createUser(rows, id, username) ==
    LET fits == /\ id \notin idsOf(rows)
                /\ \A i \in 1..Len(rows) : rows[i].username # toLowerCase(username)
    IN [ok |-> fits,
        rows |-> IF fits THEN Append(rows, [id |-> id, username |-> toLowerCase(username)])
                 ELSE rows]

Answer(hid, username, status, error, id) ==
    [hid |-> hid, username |-> username, stage |-> "done", status |-> status,
     error |-> error, id |-> id, snapshot |-> << >>]

Hashing(hid, username, snapshot) ==
    [hid |-> hid, username |-> username, stage |-> "hashing", status |-> 0,
     error |-> "none", id |-> 0, snapshot |-> snapshot]

RegisterInit ==
    /\ AtRest
    /\ arg = NoArg
    /\ result = NoResult
    /\ build \in {"sqlite", "file"}
    /\ db = EmptyDb
    /\ handlers = {}
    /\ reply = NoReply
    /\ served = 0

(* The route up to 'await bcrypt.hash', server.js:114-139 and
   part_006:157-185: validation, then the look-up of the username. *)
registerArrives(username) ==
    /\ served < MaxRegistrations
    /\ served' = served + 1
    /\ handlers' = handlers \cup
         { IF registerValidation(username, Password) # 200
           THEN Answer(served + 1, username, 400, "VALIDATION", 0)
           ELSE IF findUserByUsername(db.users, username)
           THEN Answer(served + 1, username, 409, "USERNAME_EXISTS", 0)
           ELSE Hashing(served + 1, username, db.users) }
    /\ UNCHANGED << programVars, pureVars, build, db, reply >>

(* The route after the hash, server.js:141-163: createUser, then the
   token.  part_006:187-217: the new user is pushed onto the array loaded
   before the hash and the array is written over users.json. *)
registerCompletes(h, userId) ==
    /\ h \in handlers
    /\ h.stage = "hashing"
    /\ userId \in ClockReadings(db.users)
    /\ LET created == IF build = "sqlite" THEN createUser(db.users, userId, h.username)
                      ELSE [ok |-> TRUE,
                            rows |-> Append(h.snapshot, [id |-> userId,
                                                         username |-> toLowerCase(h.username)])]
       IN /\ db' = [db EXCEPT !.users = created.rows]
          /\ handlers' = (handlers \ {h}) \cup
                { IF created.ok THEN Answer(h.hid, h.username, 201, "none", userId)
                  ELSE Answer(h.hid, h.username, 500, "CREATE_FAILED", 0) }
    /\ UNCHANGED << programVars, pureVars, build, reply, served >>

NextRegister ==
    \/ \E username \in Usernames : registerArrives(username)
    \/ \E h \in handlers, userId \in Timestamps : registerCompletes(h, userId)

RegisterSpec == RegisterInit /\ [][NextRegister]_allVars

-----------------------------------------------------------------------------
(* The validators of part_004:205-433, each applied to an input of its own.
   The numbers of the samples are whole, and a tolerance of 20% or 15% is
   compared in twentieths. *)

LettersRaw == [text |-> "letters", value |-> 0]

Error(field, text) == [field |-> field, text |-> text]

Abs(n) == IF n < 0 THEN 0 - n ELSE n

(* A range test that never finds a value too high. *)
numberErrorsNoMax(raw, max, field) ==
    IF raw.text = "blank" THEN {Error(field, "required")}
    ELSE IF parseFloat(raw).nan THEN {Error(field, "not a number")}
    ELSE IF parseFloat(raw).n < 0 THEN {Error(field, "negative")}
    ELSE {}

(* One of the four if-chains of part_004:217-263 *)
numberErrors(raw, max, field) ==
    IF raw.text = "blank" THEN {Error(field, "required")}
    ELSE IF parseFloat(raw).nan THEN {Error(field, "not a number")}
    ELSE IF parseFloat(raw).n < 0 THEN {Error(field, "negative")}
    ELSE IF parseFloat(raw).n > max THEN {Error(field, "too high")}
    ELSE {}

(* A cross-check that also applies to foods of 50 calories or less. *)
crossCheckAlways(calories, protein, carbs, fat) ==
    Abs(calories - ((protein * 4) + (carbs * 4) + (fat * 9))) * 20 > calories * 4

(* The cross-validation of part_004:266-274 *)
crossCheckFails(calories, protein, carbs, fat) ==
    LET calculatedCalories == (protein * 4) + (carbs * 4) + (fat * 9)
        difference == Abs(calories - calculatedCalories)
    IN difference * 20 > calories * 4 /\ calories > 50

(* validateFood, part_004:205-280 *)
validateFood(food) ==
    LET calories == parseFloat(food.calories)
        protein == parseFloat(food.protein)
        carbs == parseFloat(food.carbs)
        fat == parseFloat(food.fat)
        errors ==
            (IF trim(food.name) = << >> THEN {Error("name", "required")}
             ELSE IF Len(trim(food.name)) < 2 THEN {Error("name", "too short")}
             ELSE IF Len(trim(food.name)) > 100 THEN {Error("name", "too long")}
             ELSE {})
            \cup numberErrors(food.calories, 9000, "calories")
            \cup numberErrors(food.protein, 100, "protein")
            \cup numberErrors(food.carbs, 100, "carbs")
            \cup numberErrors(food.fat, 100, "fat")
            \cup (IF ~protein.nan /\ ~carbs.nan /\ ~fat.nan /\ ~calories.nan
                     /\ crossCheckFails(calories.n, protein.n, carbs.n, fat.n)
                  THEN {Error("macros", "do not match")} ELSE {})
    IN [isValid |-> errors = {}, errors |-> errors]

FoodData(name, calories, protein, carbs, fat) ==
    [name |-> name, calories |-> calories, protein |-> protein, carbs |-> carbs, fat |-> fat]

FoodInputs ==
    {FoodData(n, c, p, cb, f) :
        n \in {<< >>, << " " >>, << "a" >>, << "a", "b" >>},
        c \in {BlankRaw, LettersRaw} \cup {Raw(v) : v \in {0 - 5, 0, 50, 51, 100, 9000, 9001}},
        p \in {BlankRaw} \cup {Raw(v) : v \in {0 - 1, 0, 10, 19, 20, 25, 30, 31, 100, 200}},
        cb \in {LettersRaw} \cup {Raw(v) : v \in {0, 100, 101}},
        f \in {BlankRaw} \cup {Raw(v) : v \in {0, 20, 101}}}

(* One of the four if-chains of part_004:382-416: a goal that is 0 is
   falsy and counts as missing. *)
goalErrors(value, min, max, field) ==
    IF value = 0 THEN {Error(field, "required")}
    ELSE IF value < min THEN {Error(field, "too low")}
    ELSE IF value > max THEN {Error(field, "too high")}
    ELSE {}

(* validateGoals, part_004:379-433 *)
validateGoals(g) ==
    LET calculatedCalories == (g.protein * 4) + (g.carbs * 4) + (g.fat * 9)
        difference == Abs(g.calories - calculatedCalories)
        errors ==
            goalErrors(g.calories, 800, 10000, "calories")
            \cup goalErrors(g.protein, 10, 500, "protein")
            \cup goalErrors(g.carbs, 0, 1000, "carbs")
            \cup goalErrors(g.fat, 10, 300, "fat")
            \cup (IF g.calories # 0 /\ g.protein # 0 /\ g.carbs # 0 /\ g.fat # 0
                     /\ difference * 20 > g.calories * 3
                  THEN {Error("macros", "do not match")} ELSE {})
    IN [isValid |-> errors = {}, errors |-> errors]

GoalInputs ==
    [calories : {0, 799, 800, 2000, 10000, 10001},
     protein : {0, 9, 10, 110, 150, 500, 501},
     carbs : {0 - 1, 0, 1, 200, 250, 1000, 1001},
     fat : {0, 9, 10, 40, 67, 300, 301}]

(* Math.round of the fraction num / den, den > 0 *)
Round(num, den) == (2 * num + den) \div (2 * den)

(* validateCalculatorData, part_004:304-376, on numbers that are typed in *)
validateCalculatorData(data) ==
    /\ data.age # 0 /\ data.age >= 15 /\ data.age <= 80
    /\ IF data.unitSystem = "imperial"
       THEN /\ data.height # 0 /\ data.height >= 3 /\ data.height <= 8
            /\ data.heightInches >= 0 /\ data.heightInches < 12
            /\ data.weight # 0 /\ data.weight >= 50 /\ data.weight <= 1000
       ELSE /\ data.height # 0 /\ data.height >= 100 /\ data.height <= 250
            /\ data.weight # 0 /\ data.weight >= 20 /\ data.weight <= 450
    /\ data.gender \in {"male", "female"}
    /\ data.unitSystem \in {"imperial", "metric"}

(* activityMultipliers, GoalsPage.tsx:35-41, in fortieths *)
activityMultipliers ==
    [sedentary |-> 48, light |-> 55, moderate |-> 62, active |-> 69, veryActive |-> 76]

(* calculateCalories, GoalsPage.tsx:86-115, in fixed point: the weight in
   grams, the height in hundredths of a centimetre, the BMR in 1/2000 kcal.
   The pounds of the samples are multiples of 125, which convert exactly. *)
calculateCalories(data) ==
    LET weightInKg == IF data.unitSystem = "imperial"
                      THEN (data.weight * 453592) \div 1000 ELSE data.weight * 1000
        heightInCm == IF data.unitSystem = "imperial"
                      THEN (12 * data.height + data.heightInches) * 254
                      ELSE data.height * 100
        bmr == 20 * weightInKg + 125 * heightInCm - 10000 * data.age
                 + (IF data.gender = "male" THEN 10000 ELSE 0 - 322000)
        maintenance == Round(bmr * activityMultipliers[data.activityLevel], 80000)
    IN [maintenance |-> maintenance,
        mildLoss |-> Round(maintenance * 9, 10),
        weightLoss |-> Round(maintenance * 8, 10),
        extremeLoss |-> Round(maintenance * 61, 100)]

(* applyCalculatedGoals, GoalsPage.tsx:120-143: the goals handed to
   onUpdateGoals, which is setGoals (App.tsx:1912-1914). *)
applyCalculatedGoals(data, calorieTarget) ==
    LET protein == IF data.unitSystem = "imperial" THEN Round(data.weight * 1, 1)
                   ELSE Round(data.weight * 22, 10)
        fat == Round(calorieTarget * 25, 900)
        carbs == Round(calorieTarget - (protein * 4) - (fat * 9), 4)
    IN [calories |-> calorieTarget, protein |-> protein,
        carbs |-> IF carbs > 50 THEN carbs ELSE 50, fat |-> fat]

CalculatorInputs ==
    [age : {14, 15, 25, 80}, gender : {"male", "female"}, unitSystem : {"imperial"},
     height : {5, 8}, heightInches : {0, 11}, weight : {125, 250, 500, 1000},
     activityLevel : {"sedentary", "moderate", "veryActive"}]
    \cup
    [age : {14, 15, 25, 80}, gender : {"male", "female"}, unitSystem : {"metric"},
     height : {100, 180, 250}, heightInches : {10}, weight : {20, 70, 450},
     activityLevel : {"sedentary", "moderate", "veryActive"}]

ValidationInputs ==
    {[of |-> "food", food |-> food] : food \in FoodInputs}
    \cup {[of |-> "goals", goals |-> g] : g \in GoalInputs}
    \cup {[of |-> "portion", portionSize |-> raw] : raw \in PortionTexts \cup {LettersRaw}}
    \cup {[of |-> "calculator", data |-> data] : data \in CalculatorInputs}

ValidationInit ==
    /\ AtRest
    /\ ServerIdle
    /\ arg \in ValidationInputs
    /\ result = NoResult

validateFoodApplied ==
    /\ arg.of = "food"
    /\ result = NoResult
    /\ result' = [of |-> "food", validation |-> validateFood(arg.food)]
    /\ UNCHANGED << programVars, arg, serverVars >>

validateGoalsApplied ==
    /\ arg.of = "goals"
    /\ result = NoResult
    /\ result' = [of |-> "goals", validation |-> validateGoals(arg.goals)]
    /\ UNCHANGED << programVars, arg, serverVars >>

validatePortionSizeApplied ==
    /\ arg.of = "portion"
    /\ result = NoResult
    /\ result' = [of |-> "portion", isValid |-> validatePortionSize(arg.portionSize)]
    /\ UNCHANGED << programVars, arg, serverVars >>

(* Calculate, GoalsPage.tsx:75-118 *)
calculateCaloriesPressed ==
    /\ arg.of = "calculator"
    /\ result = NoResult
    /\ result' = IF validateCalculatorData(arg.data)
                  THEN [of |-> "results", results |-> calculateCalories(arg.data)]
                  ELSE [of |-> "refused"]
    /\ UNCHANGED << programVars, arg, serverVars >>

(* One of the four Apply buttons of the results, GoalsPage.tsx:120-143 *)
applyCalculatedGoalsPressed(target) ==
    /\ result.of = "results"
    /\ result' = [of |-> "goals set",
                  goals |-> applyCalculatedGoals(arg.data, result.results[target])]
    /\ UNCHANGED << programVars, arg, serverVars >>

NextValidation ==
    \/ validateFoodApplied
    \/ calculateCaloriesPressed
    \/ \E target \in {"maintenance", "mildLoss", "weightLoss", "extremeLoss"} :
          applyCalculatedGoalsPressed(target)
    \/ validatePortionSizeApplied
    \/ validateGoalsApplied

ValidationSpec == ValidationInit /\ [][NextValidation]_allVars

-----------------------------------------------------------------------------
(* The macros of a new entry.  A positive finite number is kept by its
   decimal order of magnitude, 10^e; the doubles end above 10^308. *)
Ten(e) == [kind |-> "pow", n |-> 1, e |-> e]

isFiniteNumber(v) == v.kind \in {"fin", "pow"}

(* The double nearest to 10^e *)
Magnitude(e) ==
    IF e > 308 THEN PosInf ELSE IF e < 0 - 323 THEN Fin(0) ELSE Ten(e)

(* a * b of JavaScript, for a and b that are not negative *)
Times(a, b) ==
    IF isNaN(a) \/ isNaN(b) THEN NaN
    ELSE IF a = Fin(0) \/ b = Fin(0)
         THEN (IF a.kind = "inf" \/ b.kind = "inf" THEN NaN ELSE Fin(0))
    ELSE IF a.kind = "inf" \/ b.kind = "inf" THEN PosInf
    ELSE Magnitude(a.e + b.e)

(* a / b of JavaScript, for a and b that are not negative *)
Over(a, b) ==
    IF isNaN(a) \/ isNaN(b) THEN NaN
    ELSE IF b = Fin(0) THEN (IF a = Fin(0) THEN NaN ELSE PosInf)
    ELSE IF b.kind = "inf" THEN (IF a.kind = "inf" THEN NaN ELSE Fin(0))
    ELSE IF a = Fin(0) THEN Fin(0)
    ELSE IF a.kind = "inf" THEN PosInf
    ELSE Magnitude(a.e - b.e)

(* The portion test of part_004:283-302 on the number the text parses to:
   a blank or non-numeric text parses to NaN. *)
portionValid(portion) ==
    /\ ~isNaN(portion)
    /\ ~(portion = Fin(0))
    /\ ~(portion.kind = "inf" \/ (portion.kind = "pow" /\ portion.e > 4))

(* addFoodEntry(food, customPortionSize), App.tsx:403-478: the entry that is
   created, or a refusal.  food.serving is given by the number its digits
   parse to. *)
newEntry(food, customPortionSize) ==
    LET actualPortionSize == customPortionSize
        basePortionSize == IF isNaN(food.serving) \/ food.serving = Fin(0)
                           THEN Ten(2) ELSE food.serving
        multiplier == Over(actualPortionSize, basePortionSize)
        calculatedCalories == Times(food.calories, multiplier)
        calculatedProtein == Times(food.protein, multiplier)
        calculatedCarbs == Times(food.carbs, multiplier)
        calculatedFat == Times(food.fat, multiplier)
    IN IF isNaN(food.calories) \/ isNaN(food.protein) \/ isNaN(food.carbs) \/ isNaN(food.fat)
       THEN [of |-> "refused"]
       ELSE IF isNaN(multiplier) \/ multiplier = Fin(0)
       THEN [of |-> "refused"]
       ELSE IF isNaN(calculatedCalories) \/ isNaN(calculatedProtein)
               \/ isNaN(calculatedCarbs) \/ isNaN(calculatedFat)
       THEN [of |-> "refused"]
       ELSE [of |-> "entry", portionSize |-> actualPortionSize,
             calories |-> calculatedCalories, protein |-> calculatedProtein,
             carbs |-> calculatedCarbs, fat |-> calculatedFat]

MacroValues == {Fin(0), Ten(0), Ten(3), NaN}

EntryFoods ==
    [calories : MacroValues, protein : MacroValues, carbs : MacroValues, fat : MacroValues,
     serving : {Ten(2), Ten(0), NaN}]

ParsedPortions == {NaN, Fin(0), Ten(0), Ten(2), Ten(4), Ten(5), Ten(308)}

EntryInit ==
    /\ AtRest
    /\ ServerIdle
    /\ arg \in {[of |-> "add", food |-> food, portion |-> portion] :
                   food \in EntryFoods, portion \in ParsedPortions}
    /\ result = NoResult

(* Add to Diary of the portion modal, App.tsx:1142-1148 *)
addFromModal ==
    /\ arg.of = "add"
    /\ result = NoResult
    /\ result' = [newEntry(arg.food, arg.portion) EXCEPT !.of = @ \o " by modal"]
    /\ UNCHANGED << programVars, arg, serverVars >>

(* handleAddFoodEntry, AnalyticsPage.tsx:390-411 *)
handleAddFoodEntry ==
    /\ arg.of = "add"
    /\ result = NoResult
    /\ result' = IF ~portionValid(arg.portion) THEN [of |-> "refused by page"]
                  ELSE [newEntry(arg.food, arg.portion) EXCEPT !.of = @ \o " by page"]
    /\ UNCHANGED << programVars, arg, serverVars >>

NextEntry == addFromModal \/ handleAddFoodEntry

EntrySpec == EntryInit /\ [][NextEntry]_allVars

SessionTypeOK ==
    /\ user \in Users \cup {NoUser}
    /\ token \in Tokens \cup {NoToken}
    /\ storedToken \in Tokens \cup {NoToken}
    /\ storedUser \in Users \cup {NoUser}
    /\ apiToken \in Tokens \cup {NoToken}
    /\ loading \in BOOLEAN
    /\ authPc \in {"start", "verifying", "login", "done"}
    /\ now \in 0..MaxTime
    /\ Cardinality(calls) <= MaxCalls + MaxLogins + 1

Quiescent ==
    /\ net = {}
    /\ tasks = {}
    /\ autoTimer.phase = "idle"
    /\ resaveTimers = {}

TypeOK ==
    /\ customFoods \subseteq FoodKeys
    /\ goals \in GoalChoices
    /\ isDeletingEntry \in BOOLEAN
    /\ isManualSaving \in BOOLEAN
    /\ autoTimer.phase \in {"idle", "waiting", "due"}
    /\ Cardinality(tasks) <= MaxTasks
    /\ Cardinality(net) <= MaxReq
    /\ ops \in 0..MaxOps
    /\ faults \in 0..MaxFaults

-----------------------------------------------------------------------------
(* Properties *)

IssuedPushes == {r \in net' \ net : r.kind = "push" /\ r.stage = "sent"}

MutationPushInFlight ==
    \E q \in net : q.kind = "push" /\ q.origin \in {"add", "remove"}

Completes(t) == \A u \in tasks' : u.tid # t.tid

UserChange == ops' # ops /\ CurrentState' # CurrentState

TempIds(entries) == {i \in Ids(entries) : i > TempBase}

Holds(entries, e) == \E i \in 1..Len(entries) : entries[i] = e

(* The memory of the mounted component never holds a corrupted entry: every
   load filters what it fetched and addFoodEntry refuses NaN macros, so the
   cleanup control of part_003:304-305 is never rendered. *)
NoCorruptedEntryInMemory == countCorruptedEntries = 0

(* C1: optimistic rollback.  When an addFoodEntry / removeFoodEntry call
   whose full-dataset push failed completes, the in-memory daily entries
   equal the snapshot the call took before its optimistic update. *)
C1_RollbackOnPushFailure ==
    [][\A t \in tasks :
          (Completes(t) /\ ~t.pushOk) => dailyEntries' = t.originalEntries]_vars

(* C2: autosave suppression.  No debounced autosave push is issued at a
   moment at which a push issued by addFoodEntry or removeFoodEntry is in
   flight, also when two such calls overlap. *)
C2_AutosaveSuppressed ==
    [][\A r \in IssuedPushes : r.origin = "autosave" => ~MutationPushInFlight]_vars

(* C3: a deleted entry is never reintroduced.  Once the store has
   acknowledged the push of the removal of an entry, no push issued from
   then on contains the entry, and neither the in-memory entries nor the
   remote store hold it. *)
C3_DeletedEntryStaysDeleted ==
    [][\A a \in acked :
          a.kind = "remove" =>
             /\ a.key \notin Keys(dailyEntries')
             /\ a.key \notin Keys(remote'.dailyEntries)
             /\ \A r \in IssuedPushes : a.key \notin Keys(r.data.dailyEntries)]_vars

(* C5: debounce coalescing.  With no delete or manual save in flight, the
   changes made since the last push are covered by exactly one pending
   autosave timer, which carries the state as of the last change. *)
C5_OnePendingAutosaveOfLastState ==
    (unsaved /\ ~isDeletingEntry /\ ~isManualSaving)
        => (autoTimer.phase # "idle" /\ autoTimer.closure = CurrentState)

(* C6: canonical ids.  Once the push of an add or remove has been
   acknowledged and its re-fetch has been applied (no request has failed)
   and the system is quiescent, every in-memory entry carries the id under
   which the remote store holds it, and no temporary id is left. *)
C6_CanonicalIdsAtQuiescence ==
    (Quiescent /\ acked # {} /\ faults = 0)
        => /\ TempIds(dailyEntries) = {}
           /\ \A i \in 1..Len(dailyEntries) : Holds(remote.dailyEntries, dailyEntries[i])

(* C7: every change is pushed.  A change to custom foods, daily entries or
   goals made with no delete or manual save in flight starts the quiet
   interval of an autosave push of the changed state, whatever the resulting
   contents. *)
C7_EveryChangeSchedulesPush ==
    [][(UserChange /\ ~isDeletingEntry' /\ ~isManualSaving')
          => (autoTimer'.phase = "waiting" /\ autoTimer'.closure = CurrentState')]_vars

(* C8: no automatic retry.  After a push has failed, no push of the same
   data is issued unless the user acts again. *)
C8_NoAutomaticRetry ==
    [][ops' = ops => \A r \in IssuedPushes : r.data \notin failed]_vars

(* C9: every push carries, in each field that its caller did not override,
   the in-memory value of the moment at which the push is issued. *)
C9_PushCarriesCurrentState ==
    [][\A r \in IssuedPushes :
          /\ r.data.customFoods = customFoods
          /\ r.data.goals = goals
          /\ (~r.overridden => r.data.dailyEntries = dailyEntries)]_vars

(* C10: guaranteed flag cleanup.  When every addFoodEntry / removeFoodEntry
   call has completed, however its push and its re-fetch ended, both
   isDeletingEntry and isManualSaving are false. *)
C10_FlagsClearedAfterCompletion ==
    tasks = {} => (~isDeletingEntry /\ ~isManualSaving)

(* A call has completed although its re-fetch failed: the memory still holds
   the entry under its temporary id. *)
C10_Witness ==
    /\ tasks = {}
    /\ ops > 0
    /\ TempIds(dailyEntries) # {}

(* C11: invalid mutation input is rejected without effect.  A press of Add
   to Diary with a portion that validatePortionSize rejects changes no
   in-memory collection, writes nothing to the local cache and issues no
   remote call. *)
C11_InvalidPortionHasNoEffect ==
    [][~validatePortionSize(portionSize)
          => UNCHANGED << customFoods, dailyEntries, goals, localCache, net >>]_allVars

(* C12: stored credential already expired at startup.  When the page is
   opened with a persisted token whose expiry has passed, startup completes
   without any network call, the session ends Unauthenticated and the
   persisted token and identity are purged. *)
C12_ExpiredTokenAtStartup ==
    [][/\ (/\ authPc = "start"
           /\ authPc' # "start"
           /\ storedToken # NoToken
           /\ storedUser # NoUser
           /\ storedToken.exp < now)
          => /\ calls' = calls
             /\ ~isAuthenticated'
             /\ ~loading'
             /\ storedToken' = NoToken
             /\ storedUser' = NoUser
       /\ lastAct' = "initExpired" => ~isAuthenticated' /\ storedToken' = NoToken]_allVars

C12_Witness ==
    /\ lastAct = "initExpired"
    /\ authPc = "done"
    /\ calls = {}
    /\ ~loading
    /\ ~isAuthenticated
    /\ storedToken = NoToken

(* C13: stored credential not yet expired at startup.  When the page is
   opened with a persisted token that has not expired, the session becomes
   Authenticated at once, exactly one remote call is made to confirm it, and
   if the server rejects that call the session ends Unauthenticated with the
   persisted token and identity purged. *)
C13_FreshTokenAtStartup ==
    [][/\ (/\ authPc = "start"
           /\ authPc' # "start"
           /\ storedToken # NoToken
           /\ storedUser # NoUser
           /\ ~(storedToken.exp < now))
          => /\ isAuthenticated'
             /\ \E c \in calls' \ calls :
                    /\ calls' = calls \cup {c}
                    /\ c.kind = "verify"
                    /\ c.tok = storedToken
       /\ authPc' = "verifying"
          => \E c \in calls' : c.kind = "verify" /\ {d \in calls' : d.stage = "sent"} = {c}
       /\ (/\ authPc = "verifying"
           /\ authPc' = "done"
           /\ \E c \in calls' \ calls : c.kind = "verify" /\ c.status \in {401, 403})
          => /\ ~isAuthenticated'
             /\ storedToken' = NoToken
             /\ storedUser' = NoUser]_allVars

C13_Witness ==
    /\ lastAct = "verifyRejected"
    /\ \E c \in calls : c.kind = "verify" /\ c.stage = "done" /\ c.status = 403
    /\ Cardinality(calls) = 1
    /\ ~isAuthenticated
    /\ storedToken = NoToken

(* C14: server-side rejection of the credential.  Whenever a call made with
   the session's credential is answered 401 or 403, the session is
   Unauthenticated and the persisted token and identity are purged. *)
C14_RejectedCallEndsSession ==
    [][\A c \in calls' \ calls :
          (c.stage = "done" /\ c.status \in {401, 403})
             => /\ ~isAuthenticated'
                /\ storedToken' = NoToken
                /\ storedUser' = NoUser]_allVars

(* C15: expiry during a session.  While the session is Authenticated, a run
   of the periodic check that finds the token expired ends the session by
   logout: the session is Unauthenticated and nothing of it is kept. *)
C15_ExpiryDetectedByTick ==
    [][(isAuthenticated /\ token.exp < now /\ intervalTick)
          => /\ ~isAuthenticated'
             /\ user' = NoUser
             /\ token' = NoToken
             /\ storedToken' = NoToken
             /\ storedUser' = NoUser
             /\ apiToken' = NoToken]_allVars

C15_Witness ==
    /\ lastAct = "tickExpired"
    /\ ~loading
    /\ ~isAuthenticated
    /\ token = NoToken
    /\ storedToken = NoToken

(* C16: logout postcondition.  After logout the in-memory token and user are
   absent, the persisted token and user are removed, the API client holds no
   credential, and the session is Unauthenticated. *)
C16_LogoutPostcondition ==
    lastAct \in {"logout", "tickExpired", "initExpired", "verifyRejected"}
        => /\ user = NoUser
           /\ token = NoToken
           /\ storedToken = NoToken
           /\ storedUser = NoUser
           /\ apiToken = NoToken
           /\ SentToken = NoToken
           /\ ~isAuthenticated

C16_Witness ==
    /\ lastAct = "logout"
    /\ \E c \in calls : c.kind = "data" /\ c.tok # NoToken
    /\ apiToken = NoToken
    /\ storedToken = NoToken
    /\ storedUser = NoUser
    /\ ~isAuthenticated

(* C17: session torn down with a call in flight.  When the user has logged
   out while a push or a fetch of the controller was in flight, what happens
   afterwards for those calls changes neither the in-memory collections, nor
   the local cache, nor the session, and neither issues nor schedules a
   further push. *)
C17_ResolutionAfterLogoutIsNoOp ==
    [][\A r \in net :
          (r.orphan /\ ~isAuthenticated /\ (PushSettles(r) \/ FetchSettles(r)))
             => /\ UNCHANGED << customFoods, dailyEntries, goals, localCache >>
                /\ UNCHANGED << user, token, loading, storedToken, storedUser, apiToken >>
                /\ IssuedPushes = {}
                /\ resaveTimers' \subseteq resaveTimers]_allVars

FromCache(ds, cache) ==
    \/ ds.customFoods \cap cache.customFoods # {}
    \/ Keys(ds.dailyEntries) \cap Keys(cache.dailyEntries) # {}

(* C18: login triggers a full replace from the remote store.  When the
   session becomes Authenticated the controller issues one fetch of the
   whole dataset at once; when that fetch succeeds, custom foods, goals and
   daily entries (less the corrupted entries the load always drops) become
   those of the fetched dataset, whatever the memory held; and nothing of the
   local cache ever appears in the memory or in a push. *)
C18_LoginFetchesAndReplaces ==
    [][/\ (~isAuthenticated /\ isAuthenticated')
          => \E f \in net' \ net :
                /\ net' = net \cup {f}
                /\ f.kind = "fetch"
                /\ f.stage = "sent"
                /\ f.tok = token'
       /\ \A r \in net :
             (r.kind = "fetch" /\ r.origin = "load" /\ r.stage = "ok" /\ r \notin net')
                => /\ customFoods' = r.data.customFoods
                   /\ goals' = r.data.goals
                   /\ dailyEntries' = cleanupNaNEntries(r.data.dailyEntries)
       /\ ~FromCache(CurrentState', localCache)
       /\ \A r \in net' : r.kind = "push" => ~FromCache(r.data, localCache)]_allVars

C18_Witness ==
    /\ lastAct = "loginOk"
    /\ Mounted
    /\ ops = 0
    /\ net = {}
    /\ localCache = LegacyCache
    /\ dailyEntries # NoEntries
    /\ customFoods = remote.customFoods
    /\ goals = remote.goals

(* C19: the local cache is untouched while Authenticated.  No step taken
   while the session is Authenticated (add, remove, custom-food change, load
   and the continuations and timers they start) changes the cached custom
   foods or daily entries, and nothing the cache holds is taken into the
   memory. *)
C19_CacheUntouchedWhileAuthenticated ==
    [][isAuthenticated
          => /\ localCache' = localCache
             /\ FromCache(CurrentState, localCache) = FromCache(CurrentState', localCache')]_allVars

C19_Witness ==
    /\ isAuthenticated
    /\ ops = MaxOps
    /\ customFoods # {}
    /\ dailyEntries # NoEntries
    /\ localCache = LegacyCache
    /\ ~FromCache(CurrentState, localCache)

Cleaned(ds) == Dataset(ds.customFoods, cleanupNaNEntries(ds.dailyEntries), ds.goals)

(* C21: re-save after the load-time filter.  When a load dropped corrupted
   entries from the dataset it fetched, the re-save it schedules pushes that
   dataset less the corrupted entries: the same custom foods, the same goals
   and every clean entry. *)
C21_ResaveCarriesCleanedLoad ==
    [][\A r \in net :
          (/\ r.kind = "fetch"
           /\ r.stage = "ok"
           /\ r \notin net'
           /\ ~r.orphan
           /\ Cleaned(r.data) # r.data)
             => \A closure \in resaveTimers' \ resaveTimers : closure = Cleaned(r.data)]_allVars

NonFinite(entry) ==
    \E v \in {entry.calories, entry.protein, entry.carbs, entry.fat} : v.kind # "fin"

(* C23: the corruption predicate.  An entry is treated as corrupted, by the
   filter and by the count alike, exactly when at least one of calories,
   protein, carbs and fat is not a finite number (NaN, +Infinity or
   -Infinity). *)
C23_CorruptedIffNonFinite ==
    result.of = "guard"
        => /\ result.removed <=> NonFinite(arg.entry)
           /\ result.counted <=> NonFinite(arg.entry)

RECURSIVE SumOfFinite(_, _, _)
SumOfFinite(entries, date, field) ==
    IF entries = << >> THEN 0
    ELSE SumOfFinite(Tail(entries), date, field)
         + (IF Head(entries).date = date /\ Head(entries)[field].kind = "fin"
            THEN Head(entries)[field].n ELSE 0)

(* C22: aggregation safety.  For every list of entries the daily totals
   are, for each macro field, the sum over the entries of the selected date
   of that field, a corrupted (non-finite) value counting as zero; the
   corrupted count is the number of entries with at least one corrupted
   field; and no total is ever non-finite. *)
C22_TotalsAreSafe ==
    result.of = "totals"
        => /\ \A field \in {"calories", "protein", "carbs", "fat"} :
                 result.totals[field] = Fin(SumOfFinite(arg.entries, arg.selectedDate, field))
           /\ result.corrupted
                 = Cardinality({i \in 1..Len(arg.entries) : NonFinite(arg.entries[i])})

SpecifiedCredentials(username, password) ==
    /\ Len(trim(username)) >= 3
    /\ matchesWord(trim(username))
    /\ Len(password) >= 6

(* C29: one credential rule on both sides.  For every username and
   password, the client-side validator accepts the pair exactly when the
   validation of the registration route accepts it, and both accept it
   exactly when the trimmed username has at least 3 characters, all of them
   letters, digits or underscores, and the password has at least 6. *)
C29_SameCredentialRule ==
    result.of = "checked"
        => /\ result.client <=> result.server
           /\ result.server <=> SpecifiedCredentials(arg.username, arg.password)

(* C30: sanitizing is idempotent.  A name stored by the food form is a
   fixed point of sanitizeString, and saving the edit form again with the
   name left as it was loaded leaves the stored name as it was. *)
C30_ResaveKeepsName ==
    [][(result.of = "food" /\ result'.of = "food")
          => /\ result'.name = result.name
             /\ sanitizeString(result.name) = result.name]_allVars

DataTypeOK ==
    /\ build \in {"sqlite-old", "sqlite"}
    /\ served \in 0..MaxServed
    /\ \A i \in 1..Len(db.daily_entries) : db.daily_entries[i].user_id \in Accounts
    /\ \A i \in 1..Len(db.custom_foods) : db.custom_foods[i].user_id \in Accounts
    /\ \A row \in db.user_goals : row.user_id \in Accounts

WriteAccepted == served' # served /\ reply'.of = "write" /\ reply'.status = 200

(* The object read back has the field, with the value that was written. *)
SameField(read, written, field) ==
    field \in DOMAIN read /\ field \in DOMAIN written /\ read[field] = written[field]

SameFields(read, written, fields) ==
    /\ Len(read) = Len(written)
    /\ \A i \in 1..Len(written) : \A f \in fields : SameField(read[i], written[i], f)

(* C24: write/read round trip.  After a write that the server accepted, a
   read by the same user returns the custom foods and the daily entries of
   that write, in number and order, and nothing from earlier writes; each
   entry has the name, foodId, portionSize, unit, macros, date and mealTime
   it was written with, each food its name, macros and serving. *)
C24_WriteReadRoundTrip ==
    [][WriteAccepted
         => LET read == getUserData(db', build', reply'.tok.id)
                body == reply'.body
            IN /\ SameFields(read.customFoods, orEmpty(body.customFoods),
                             {"name", "calories", "protein", "carbs", "fat", "serving"})
               /\ SameFields(read.dailyEntries, orEmpty(body.dailyEntries),
                             {"name", "foodId", "portionSize", "unit", "calories", "protein",
                              "carbs", "fat", "date", "mealTime"})]_allVars

PlainNumericObject(v) ==
    v.type = "object" /\ \A f \in GoalFields : prop(v, f).type = "number"

Malformed(body) ==
    \/ body.customFoods.type \notin {"undefined", "array"}
    \/ body.dailyEntries.type \notin {"undefined", "array"}
    \/ body.goals.type # "undefined" /\ ~PlainNumericObject(body.goals)

(* C25: malformed shapes are rejected.  A write by an authenticated user
   whose customFoods or dailyEntries is present but is not an array, or
   whose goals is present but is not an object with numeric fields, is
   answered with a 4xx status and leaves the store as it was. *)
C25_MalformedWriteRejected ==
    [][(served' # served /\ reply'.of = "write" /\ authenticateToken(reply'.tok) = 200
          /\ Malformed(reply'.body))
         => reply'.status \in 400..499 /\ db' = db]_allVars

OthersRows(database, userId) ==
    [custom_foods |-> notOwnedBy(database.custom_foods, userId),
     daily_entries |-> notOwnedBy(database.daily_entries, userId),
     user_goals |-> {row \in database.user_goals : row.user_id # userId}]

(* C28: per-user isolation.  A read, write or delete-one handled for a
   request authenticated as one user leaves every row owned by another
   user as it was and returns rows of the requesting user only; a
   delete-one for an id that is not the id of one of the user's entries
   is answered with a failure status and leaves the store as it was. *)
C28_PerUserIsolation ==
    [][(served' # served /\ authenticateToken(reply'.tok) = 200)
         => LET userId == reply'.tok.id
            IN /\ OthersRows(db', userId) = OthersRows(db, userId)
               /\ reply'.of = "read"
                    => /\ \A i \in 1..Len(reply'.data.customFoods) :
                             reply'.data.customFoods[i].user_id = userId
                       /\ \A i \in 1..Len(reply'.data.dailyEntries) :
                             reply'.data.dailyEntries[i].user_id = userId
                       /\ reply'.data = getUserData(db, build, userId)
               /\ (reply'.of = "delete"
                     /\ \A i \in 1..Len(db.daily_entries) :
                           ~(db.daily_entries[i].id = reply'.entryId
                               /\ db.daily_entries[i].user_id = userId))
                    => reply'.status # 200 /\ db' = db]_allVars

(* A delete-one by one user for the id of an entry of another user has been
   answered 404 and the entry is still stored. *)
C28_Witness ==
    /\ build = "sqlite"
    /\ reply.of = "delete"
    /\ reply.status = 404
    /\ \E i \in 1..Len(db.daily_entries) :
          db.daily_entries[i].id = reply.entryId /\ db.daily_entries[i].user_id # reply.tok.id

RegisterTypeOK ==
    /\ build \in {"sqlite", "file"}
    /\ served \in 0..MaxRegistrations
    /\ \A h \in handlers : h.stage \in {"hashing", "done"} /\ h.username \in Usernames
    /\ \A i \in 1..Len(db.users) : db.users[i].id \in Timestamps

(* C26: usernames are unique without regard to letter case.  In every
   state reached by registrations, interleaved or not, no two accounts of
   the store have the same lower-cased username, and every account for
   which a registration was answered with a token is in the store. *)
C26_UniqueUsernamesNoAccountLost ==
    /\ \A i, j \in 1..Len(db.users) :
          toLowerCase(db.users[i].username) = toLowerCase(db.users[j].username) => i = j
    /\ \A h \in handlers :
          (h.stage = "done" /\ h.status = 201)
             => \E i \in 1..Len(db.users) :
                   db.users[i].id = h.id /\ db.users[i].username = toLowerCase(h.username)

Responds(h) == \E g \in handlers' : g.hid = h.hid /\ g.stage = "done" /\ g # h

ResponseTo(h) == CHOOSE g \in handlers' : g.hid = h.hid

(* C27: a taken username is refused as taken.  Whenever a registration is
   answered while the store holds an account with its username in any
   letter case, also one created while this registration was being
   processed, the answer is the username-taken error and the store is left
   as it was. *)
C27_TakenUsernameRefused ==
    [][/\ \A h \in handlers :
             (Responds(h) /\ findUserByUsername(db.users, h.username))
                => ResponseTo(h).error = "USERNAME_EXISTS" /\ db'.users = db.users
       /\ \A g \in handlers' :
             (g.hid \notin {h.hid : h \in handlers} /\ g.stage = "done"
                /\ findUserByUsername(db.users, g.username)
                /\ registerValidation(g.username, Password) = 200)
                => g.error = "USERNAME_EXISTS" /\ db'.users = db.users]_allVars

InvalidNumber(raw, max) == raw.text # "number" \/ raw.value < 0 \/ raw.value > max

InvalidField(food, field) ==
    CASE field = "name" -> Len(trim(food.name)) < 2 \/ Len(trim(food.name)) > 100
      [] field = "calories" -> InvalidNumber(food.calories, 9000)
      [] OTHER -> InvalidNumber(food[field], 100)

ExampleFood == FoodData(<< >>, Raw(0 - 5), Raw(200), Raw(0), Raw(0))

(* C31: validation completeness.  validateFood reports exactly one error
   for each of name, calories, protein, carbs and fat that is invalid and
   none for a field that is valid, whatever the other fields are; isValid
   is true exactly when no error is reported; and the food with name "",
   calories "-5", protein "200", carbs "0", fat "0" gets at least 3 errors. *)
C31_EveryInvalidFieldReported ==
    result.of = "food"
        => /\ \A field \in {"name", "calories", "protein", "carbs", "fat"} :
                 Cardinality({e \in result.validation.errors : e.field = field})
                    = IF InvalidField(arg.food, field) THEN 1 ELSE 0
           /\ result.validation.isValid <=> result.validation.errors = {}
           /\ arg.food = ExampleFood => Cardinality(result.validation.errors) >= 3

(* The example food has been validated and three of its fields reported. *)
C31_Witness ==
    /\ result.of = "food"
    /\ arg.food = ExampleFood
    /\ {e.field : e \in result.validation.errors} = {"name", "calories", "protein"}

InRange(food) == \A field \in {"name", "calories", "protein", "carbs", "fat"} : ~InvalidField(food, field)

(* C32: cross-check boundary.  A food whose fields are all in range fails
   validation exactly when its calories exceed 50 and differ from
   4*protein + 4*carbs + 9*fat by more than 20% of the calories. *)
C32_CrossCheckBoundary ==
    (result.of = "food" /\ InRange(arg.food))
        => LET c == arg.food.calories.value
               m == 4 * arg.food.protein.value + 4 * arg.food.carbs.value
                      + 9 * arg.food.fat.value
           IN ~result.validation.isValid <=> (c > 50 /\ 5 * Abs(c - m) > c)

(* Of the two example foods, the one with calories 100, protein 0, carbs 0
   and fat 20 has been validated and refused. *)
C32_Witness ==
    /\ result.of = "food"
    /\ arg.food = FoodData(<< "a", "b" >>, Raw(100), Raw(0), Raw(0), Raw(20))
    /\ ~result.validation.isValid

SpecifiedGoals(g) ==
    /\ g.calories >= 800 /\ g.calories <= 10000
    /\ g.protein >= 10 /\ g.protein <= 500
    /\ g.carbs >= 0 /\ g.carbs <= 1000
    /\ g.fat >= 10 /\ g.fat <= 300
    /\ 20 * Abs(g.calories - (4 * g.protein + 4 * g.carbs + 9 * g.fat)) <= 3 * g.calories

(* C33: validateGoals accepts exactly the goals whose calories are in
   [800, 10000], protein in [10, 500], carbs in [0, 1000], with 0 carbs
   allowed, and fat in [10, 300], and whose macro calories
   4*protein + 4*carbs + 9*fat are within 15% of the calories. *)
C33_GoalsAcceptedExactly ==
    result.of = "goals" => (result.validation.isValid <=> SpecifiedGoals(arg.goals))

(* C34: portion validation boundary.  validatePortionSize accepts a text
   exactly when it parses to a number p with 0 < p <= 10000: "10000" is
   accepted, and "10001", "0" and "-1" are refused. *)
C34_PortionBoundary ==
    result.of = "portion"
        => /\ result.isValid <=> /\ arg.portionSize.text = "number"
                                 /\ arg.portionSize.value > 0
                                 /\ arg.portionSize.value <= 10000
           /\ arg.portionSize = Raw(10000) => result.isValid
           /\ arg.portionSize \in {Raw(10001), Raw(0), Raw(0 - 1)} => ~result.isValid

(* The text "10000" has been validated and accepted. *)
C34_Witness ==
    result.of = "portion" /\ arg.portionSize = Raw(10000) /\ result.isValid

(* C38: calculated goals fit the remote write.  The goals set by applying
   a calculated calorie target, for calculator input that
   validateCalculatorData accepts, have calories <= 10000, protein <= 500,
   carbs <= 1000, fat <= 300, none negative, so that the validation of the
   write route lets a push carrying them through. *)
C38_CalculatedGoalsAccepted ==
    result.of = "goals set"
        => /\ result.goals.calories >= 0 /\ result.goals.calories <= 10000
           /\ result.goals.protein >= 0 /\ result.goals.protein <= 500
           /\ result.goals.carbs >= 0 /\ result.goals.carbs <= 1000
           /\ result.goals.fat >= 0 /\ result.goals.fat <= 300
           /\ validateBody(Body(Undefined, Undefined,
                                Obj([f \in GoalFields |-> Num(result.goals[f])]))) = 200

(* C39: atomic write.  A write that is not answered with success, because
   the request is turned away, its body is rejected by the validation or a
   statement of the store fails part-way through, leaves the stored foods,
   entries and goals of every user exactly as they were. *)
C39_FailedWriteChangesNothing ==
    [][(served' # served /\ reply'.of = "write" /\ reply'.status # 200) => db' = db]_allVars

(* A write that passed the validation and failed in the store, answered 500
   while the writer has rows stored by an earlier write. *)
C39_Witness ==
    /\ reply.of = "write"
    /\ reply.status = 500
    /\ validateBody(reply.body) = 200
    /\ Len(ownedBy(db.custom_foods, reply.tok.id)) + Len(ownedBy(db.daily_entries, reply.tok.id)) > 0

(* C37: no operation introduces a corrupted entry.  Every entry created by
   add-food-entry, for any food and any portion a caller can pass, has
   finite calories, protein, carbs and fat. *)
C37_CreatedEntryIsFinite ==
    result.of \in {"entry by modal", "entry by page"}
        => /\ isFiniteNumber(result.calories)
           /\ isFiniteNumber(result.protein)
           /\ isFiniteNumber(result.carbs)
           /\ isFiniteNumber(result.fat)

(* An authenticated call gets no usable answer and nothing else happens. *)
TransientFailure ==
    \E c \in calls :
        /\ c.stage = "sent"
        /\ c.kind \in {"verify", "data"}
        /\ calls' = (calls \ {c}) \cup {Answered(c, 0)}

(* C36: a transient failure never ends the session.  When an authenticated
   remote call, the verification at startup included, fails with a network
   error, a timeout or a 5xx answer, the session stays Authenticated and
   the persisted token and user are kept. *)
C36_TransientFailureKeepsSession ==
    [][(isAuthenticated /\ TransientFailure)
         => /\ isAuthenticated'
            /\ storedToken' = storedToken /\ storedToken' # NoToken
            /\ storedUser' = storedUser]_allVars

(* C35: no acknowledged add is lost.  Once the system is quiescent, every
   entry added by an addFoodEntry whose push the store acknowledged is in
   the remote store and in memory, unless the user removed it.  With no
   failed request, every removal the user made has been acknowledged. *)
C35_AcknowledgedAddIsKept ==
    (Quiescent /\ faults = 0)
        => \A a \in acked :
              (a.kind = "add" /\ [kind |-> "remove", key |-> a.key] \notin acked)
                 => /\ a.key \in Keys(remote.dailyEntries)
                    /\ a.key \in Keys(dailyEntries)

====
